---- MODULE Spec2Model ----
(***************************************************************************)
(* Model of n8n-nodes-bunq: the process-wide rate limiter                  *)
(* (utils/rateLimit.ts) and the session lifecycle of                       *)
(* utils/bunqApiHelpers.ts (installation, device registration, session     *)
(* creation, expiry-aware renewal), under the cooperative scheduling of a  *)
(* single JavaScript event loop: a handler runs from one await to the next *)
(* without interruption, continuations of one promise run in the order in  *)
(* which they were registered, and timers fire at or after their deadline. *)
(***************************************************************************)
EXTENDS Integers, Sequences, FiniteSets, TLC

\* ------------------------------------------------------------------------
\* Bounds of the model
\* ------------------------------------------------------------------------
\* logical callers (node executions) that may be inside a helper at once
NumCallers == 3
\* the clock runs until this many windows of the widest class in scope
MaxWindows == 3
\* how many times the clock may advance by a single millisecond
MaxJitter == 1
\* calls of enforceRateLimit started in one run
MaxCalls == 5

Callers == 1..NumCallers

\* ------------------------------------------------------------------------
\* rateLimit.ts: configuration and request classification
\* ------------------------------------------------------------------------
RATE_LIMITS ==
  [ GET            |-> [maxRequests |-> 3, windowMs |-> 3000],
    POST           |-> [maxRequests |-> 5, windowMs |-> 3000],
    PUT            |-> [maxRequests |-> 2, windowMs |-> 3000],
    SESSION_SERVER |-> [maxRequests |-> 1, windowMs |-> 30000] ]

Classes == DOMAIN RATE_LIMITS
MethodClasses == {"GET", "POST", "PUT"}

\* API keys of the 'bunqApi' credential; "" is a credential without a key
ApiKeys == {"k1", "k2"}
NoApiKey == ""

\* A URL is its path segments plus whether a query string follows.
UrlSession == [segs |-> <<"session-server">>, query |-> FALSE]
UrlSessionV1 == [segs |-> <<"v1", "session-server">>, query |-> TRUE]
UrlPayment == [segs |-> <<"user", "payment">>, query |-> TRUE]

\* new URL(url, base).pathname, or the split('?')[0].split('#')[0] fallback:
\* both drop the query and keep the path.
urlPath(url) == url.segs

isSessionServer(url) ==
  LET p == urlPath(url)
  IN  Len(p) > 0 /\ p[Len(p)] = "session-server"

\* sha256(apiKey).substring(0,16): one identifier per key (collisions of the
\* truncated digest are not modelled).
credentialHash(apiKey) == <<"h", apiKey>>

\* upperMethod of a method string as callers write it
toUpperCase(method) ==
  CASE method = "get" -> "GET"
    [] method = "post" -> "POST"
    [] method = "put" -> "PUT"
    [] method = "delete" -> "DELETE"
    [] OTHER -> method

\* classOf with the GET class as the default of the switch: a variant "other
\* methods are not throttled" must tell from the code's
classOfDefaultGet(method, url) ==
  IF isSessionServer(url) THEN "SESSION_SERVER"
  ELSE IF toUpperCase(method) \in MethodClasses THEN toUpperCase(method)
  ELSE "GET"

\* classOf by the method alone, the session-server path not told apart: a
\* variant "a class of its own" must tell from the code's
classOfByMethod(method, url) ==
  IF toUpperCase(method) \in MethodClasses THEN toUpperCase(method) ELSE "NONE"

\* The class a request is throttled under; "NONE" for unthrottled methods.
classOf(method, url) ==
  IF isSessionServer(url) THEN "SESSION_SERVER"
  ELSE IF toUpperCase(method) \in MethodClasses THEN toUpperCase(method)
  ELSE "NONE"

\* keyOf without the credential in the key (one window per class for all
\* credentials): a variant independence must tell from the code's
keyOfShared(apiKey, method, url) == <<credentialHash("k1"), classOf(method, url)>>

keyOf(apiKey, method, url) == <<credentialHash(apiKey), classOf(method, url)>>

Keys == {<<credentialHash(k), cl>> : k \in ApiKeys, cl \in Classes}

rateLimitOf(key) == RATE_LIMITS[key[2]]

\* A request and the credentials of the context it is made in: the apiKey
\* of the bunqApi credential (NoApiKey if the context has none) and the
\* access token of the bunqOAuth2Api credential ("" if it has none).
Req(k, m, u) == [apiKey |-> k, method |-> m, url |-> u, accessToken |-> ""]

\* a request in a context that has an OAuth credential with access token t
\* and no API-key credential: BunqHttpClient.initialize reads environment
\* and private key from it
ReqOAuth(t, m, u) == [apiKey |-> NoApiKey, method |-> m, url |-> u, accessToken |-> t]

\* The request mixes a run is explored under (one is drawn in Init).
Scopes ==
  { {Req("k1", "GET", UrlPayment)},
    {Req("k1", "PUT", UrlPayment)},
    {Req("k1", "POST", UrlPayment)},
    {Req("k1", "POST", UrlSession)},
    {Req("k1", "POST", UrlSessionV1), Req("k1", "post", UrlPayment)},
    {Req("k1", "GET", UrlPayment), Req("k2", "GET", UrlPayment)},
    {Req("k1", "DELETE", UrlPayment), Req("k1", "PUT", UrlPayment)},
    {Req(NoApiKey, "GET", UrlPayment), Req(NoApiKey, "DELETE", UrlPayment),
     Req("k1", "PUT", UrlPayment)},
    {ReqOAuth("at1", "GET", UrlPayment), ReqOAuth("at1", "POST", UrlSession)} }

NoState == [windowStart |-> -1, count |-> 0, pendingPromise |-> 0]
NoReq == Req(NoApiKey, "", UrlPayment)

\* every request of every mix
AllReqs == UNION Scopes

\* The revisions of BunqHttpClient.request: "rateLimited" awaits
\* enforceRateLimit before it hands the request to helpers.httpRequest,
\* "plain" (utils/BunqHttpClient.ts) hands it over at once.
Clients == {"rateLimited", "plain"}

VARIABLES
  now,             \* Date.now(), in ms
  jitter,          \* single-millisecond clock steps taken so far
  scope,           \* the requests callers issue in this run
  rateLimitState,  \* the module-level Map: key -> state, NoState if absent
  admitLog,        \* per key, the times of the last maxRequests+1 admissions
  pc,              \* per caller: "idle", "chained", "ready" or "sleeping"
  callReq,         \* per caller: the request of the call in progress
  callNow,         \* per caller: the `now` the call captured on entry
  wakeAt,          \* per caller: deadline of its sleep() timer
  chain,           \* per promise owner: callers awaiting its pendingPromise
  ready,           \* continuations queued on the microtask queue, in order
  lastResult,      \* how the most recent call to return or throw ended
  calls,           \* calls started so far
  lastCall,        \* the call that ran in the last step of a call: the API
                   \* key of its credential and whether it had been suspended
  client,          \* the revision of BunqHttpClient that runs
  acquired,        \* per request: enforceRateLimit calls that have returned
  sent             \* per request: times it was handed to helpers.httpRequest

rlVars == <<now, jitter, scope, rateLimitState, admitLog, pc, callReq, callNow,
            wakeAt, chain, ready, lastResult, calls, lastCall, client, acquired, sent>>

\* the rate limiter's variables other than the clock
rlRest == <<jitter, scope, rateLimitState, admitLog, pc, callReq, callNow,
            wakeAt, chain, ready, lastResult, calls, lastCall, client, acquired, sent>>

\* no call has run yet
NoCall == [apiKey |-> "none", waited |-> FALSE]


VARIABLES
  revision,    \* which revision of the helpers runs
  server,      \* what the provider's session-creation responses carry
  seScope,     \* the credential set-ups callers use in this run
  ticks,       \* clock steps taken so far
  staticData,  \* workflow static data: per key the object stored, 0 if none
  heap,        \* the IBunqSessionData objects, by the call that created them
  spc,         \* per call: "new", "await", "done" or "failed"
  scfg,        \* per call: the credential set-up of its context
  sforce,      \* per call: forceRecreate
  smode,       \* per call: "api" or "oauth" once dispatched
  sobj,        \* per call: the object its `sessionData` refers to
  sreqs,       \* per call: the handshake steps it has requested, in order
  sarg,        \* per call: the installation (by call) whose token it passed
               \* to the request it awaits, 0 for none
  sstart,      \* per call: state of the stored record when it began
  sover,       \* per call: the calls that were awaiting when it began
  sprev,       \* per call: the call that returned right before it began
  sresult,     \* per call: the descriptor it returned or the error it raised
  lastEvent    \* [call, at] of a successful return that nothing followed

seVars == <<revision, server, seScope, ticks, staticData, heap, spc, scfg, sforce,
            smode, sobj, sreqs, sarg, sstart, sover, sprev, sresult, lastEvent>>

VARIABLES
  exCreatedAt, \* isSessionExpired on its own: the createdAt argument, in ms
  exTimeout,   \* ... the sessionTimeout argument, in seconds; 0 if absent
  exResult     \* ... "none" before the call, then "expired" or "valid"

exVars == <<exCreatedAt, exTimeout, exResult>>

VARIABLES
  erIn,  \* what helpers.httpRequest threw inside BunqHttpClient.request
  erOut  \* what request threw in turn; NoOutcome until its catch block has run

erVars == <<erIn, erOut>>

VARIABLES
  pyIn,           \* a Payments execution: its options and the pages the API holds
  nextUrl,        \* Payments.execute: the local nextUrl
  shouldContinue, \* ... the local shouldContinue
  allPayments,    \* ... the local allPayments
  requested,      \* the URLs handed to client.request, in order
  returnData,     \* the payments returned as n8n items
  pyStatus        \* "walking", then "returned" or "failed"

pyVars == <<pyIn, nextUrl, shouldContinue, allPayments, requested, returnData,
            pyStatus>>

VARIABLES
  rqIn,  \* the options of a BunqHttpClient.request call and the private key
  rqOut  \* the request handed to helpers.httpRequest; NoRequest before

rqVars == <<rqIn, rqOut>>

VARIABLES
  heIn,  \* a handleExecuteError call: the error, the number of input items
         \* and continueOnFail
  heOut  \* what the call returned or threw; NoHandled before

heVars == <<heIn, heOut>>

VARIABLES
  cpIn,       \* a CreatePayment execution: its input items and continueOnFail
  cpIndex,    \* execute: itemIndex
  cpPc,       \* where execute stands: "item", "session", "post", then
              \* "returned" or "thrown"
  cpReturn,   \* execute: returnData
  cpSessions, \* the item indices ensureBunqSession was called for, in order
  cpPosts     \* the payment-creation POSTs handed to client.request, in order

cpVars == <<cpIn, cpIndex, cpPc, cpReturn, cpSessions, cpPosts>>

VARIABLES
  btUrl,      \* BunqTrigger delete: webhookUrl
  btPc,       \* where delete stands: "start", "session", "get", "post", "ended"
  btResponse, \* the answer to the GET of the notification filters
  btPosted,   \* the filter lists posted, in order
  btResult    \* "none", then "true", or "raised" if an error left delete

btVars == <<btUrl, btPc, btResponse, btPosted, btResult>>

\* the variables of the node-level parts
ndVars == <<rqVars, heVars, cpVars, btVars>>

vars == <<rlVars, seVars, exVars, erVars, pyVars, ndVars>>

\* the last n elements of s
LastN(s, n) == IF Len(s) <= n THEN s ELSE SubSeq(s, Len(s) - n + 1, Len(s))

\* the widest window of the classes in scope bounds the clock
Horizon ==
  LET ws == {RATE_LIMITS[classOf(r.method, r.url)].windowMs :
               r \in {q \in scope : classOf(q.method, q.url) # "NONE"}}
      w  == CHOOSE x \in ws : \A y \in ws : y <= x
  IN  MaxWindows * w

RLInit ==
  /\ now = 0
  /\ jitter = 0
  /\ scope \in Scopes
  /\ rateLimitState = [k \in Keys |-> NoState]
  /\ admitLog = [k \in Keys |-> <<>>]
  /\ pc = [c \in Callers |-> "idle"]
  /\ callReq = [c \in Callers |-> NoReq]
  /\ callNow = [c \in Callers |-> 0]
  /\ wakeAt = [c \in Callers |-> 0]
  /\ chain = [c \in Callers |-> <<>>]
  /\ ready = <<>>
  /\ lastResult = "none"
  /\ calls = 0
  /\ lastCall = NoCall
  /\ client \in Clients
  /\ acquired = [r \in AllReqs |-> 0]
  /\ sent = [r \in AllReqs |-> 0]

\* BunqHttpClient.request around enforceRateLimit: if the call of caller c
\* for request req has returned in this step, the request is handed to
\* helpers.httpRequest; if it is suspended or has thrown, nothing is sent.
SendIfAcquired(c, req) ==
  LET returned == pc'[c] = "idle" /\ lastResult' \in {"admitted", "unthrottled"}
  IN  /\ acquired' = IF returned THEN [acquired EXCEPT ![req] = @ + 1] ELSE acquired
      /\ sent' = IF returned THEN [sent EXCEPT ![req] = @ + 1] ELSE sent

\* The call of caller c returns: lines 186-188, `state.count += 1` on st
\* (the caller's pc is set by the action that admits it).
Admit(c, key, st) ==
  /\ rateLimitState' = [rateLimitState EXCEPT ![key] = [st EXCEPT !.count = st.count + 1]]
  /\ admitLog' = [admitLog EXCEPT
                    ![key] = LastN(Append(@, now), rateLimitOf(key).maxRequests + 1)]
  /\ callReq' = [callReq EXCEPT ![c] = NoReq]
  /\ callNow' = [callNow EXCEPT ![c] = 0]
  /\ wakeAt' = [wakeAt EXCEPT ![c] = 0]
  /\ lastResult' = "admitted"

\* Lines 148-157: reset the window if the captured `now` is past its end.
ResetIfExpired(st, rl, nowc) ==
  IF nowc - st.windowStart >= rl.windowMs
  THEN [st EXCEPT !.windowStart = nowc, !.count = 0]
  ELSE st

\* CheckWaitIncrement throwing when the quota is used up instead of waiting:
\* a variant "rate limiting is never an error" must tell from the code's
CheckWaitIncrementThrowing(c, req, st0, nowc) ==
  LET key == keyOf(req.apiKey, req.method, req.url)
      rl  == rateLimitOf(key)
      st  == ResetIfExpired(st0, rl, nowc)
  IN  IF st.count >= rl.maxRequests
      THEN /\ rateLimitState' = [rateLimitState EXCEPT ![key] = st]
           /\ pc' = [pc EXCEPT ![c] = "idle"]
           /\ callReq' = [callReq EXCEPT ![c] = NoReq]
           /\ callNow' = [callNow EXCEPT ![c] = 0]
           /\ lastResult' = "error"
           /\ UNCHANGED <<admitLog, wakeAt>>
      ELSE /\ Admit(c, key, st)
           /\ pc' = [pc EXCEPT ![c] = "idle"]

\* Lines 148-188 for caller c, whose captured `now` is nowc and whose key
\* holds st: up to the sleep at line 172, or to the return when no sleep is
\* needed.
CheckWaitIncrement(c, req, st0, nowc) ==
  LET key    == keyOf(req.apiKey, req.method, req.url)
      rl     == rateLimitOf(key)
      st     == ResetIfExpired(st0, rl, nowc)
      waitMs == rl.windowMs - (nowc - st.windowStart)
  IN  IF st.count >= rl.maxRequests
      THEN IF waitMs > 0
           THEN /\ rateLimitState' =
                     [rateLimitState EXCEPT ![key] = [st EXCEPT !.pendingPromise = c]]
                /\ pc' = [pc EXCEPT ![c] = "sleeping"]
                /\ callReq' = [callReq EXCEPT ![c] = req]
                /\ callNow' = [callNow EXCEPT ![c] = nowc]
                /\ wakeAt' = [wakeAt EXCEPT ![c] = now + waitMs]
                /\ UNCHANGED <<admitLog, lastResult>>
           ELSE /\ Admit(c, key, [st EXCEPT !.windowStart = now, !.count = 0])
                /\ pc' = [pc EXCEPT ![c] = "idle"]
      ELSE /\ Admit(c, key, st)
           /\ pc' = [pc EXCEPT ![c] = "idle"]

\* Enter with the method classified before the credentials are looked at:
\* an unthrottled method returns without the API key being asked for.  A
\* variant "fails for every method" must tell from the code's
EnterClassifyingFirst(c, req) ==
  /\ client = "rateLimited"
  /\ pc[c] = "idle"
  /\ \A d \in Callers : pc[d] = "idle" => c <= d
  /\ ready = <<>>
  /\ calls < MaxCalls
  /\ calls' = calls + 1
  /\ lastCall' = [apiKey |-> req.apiKey, waited |-> FALSE]
  /\ UNCHANGED <<now, jitter, scope, ready, client>>
  /\ UNCHANGED <<seVars, exVars, erVars, pyVars, ndVars>>
  /\ IF classOf(req.method, req.url) = "NONE"
     THEN /\ lastResult' = "unthrottled"
          /\ UNCHANGED <<rateLimitState, admitLog, pc, callReq, callNow, wakeAt, chain>>
     ELSE IF req.apiKey = NoApiKey
     THEN /\ lastResult' = "error"
          /\ UNCHANGED <<rateLimitState, admitLog, pc, callReq, callNow, wakeAt, chain>>
     ELSE LET key == keyOf(req.apiKey, req.method, req.url)
              st  == IF rateLimitState[key] = NoState
                     THEN [windowStart |-> now, count |-> 0, pendingPromise |-> 0]
                     ELSE rateLimitState[key]
          IN  IF st.pendingPromise # 0
              THEN \* line 144-146: await state.pendingPromise
                   /\ pc' = [pc EXCEPT ![c] = "chained"]
                   /\ callReq' = [callReq EXCEPT ![c] = req]
                   /\ callNow' = [callNow EXCEPT ![c] = now]
                   /\ chain' = [chain EXCEPT ![st.pendingPromise] = Append(@, c)]
                   /\ UNCHANGED <<rateLimitState, admitLog, wakeAt, lastResult>>
              ELSE /\ CheckWaitIncrement(c, req, st, now)
                   /\ UNCHANGED chain
  /\ SendIfAcquired(c, req)

\* enforceRateLimit, from its entry to its first suspension or its return
\* (lines 70-146): credentials, classification, get-or-create, chaining.
Enter(c, req) ==
  /\ client = "rateLimited"
  /\ pc[c] = "idle"
  /\ \A d \in Callers : pc[d] = "idle" => c <= d
  /\ ready = <<>>
  /\ calls < MaxCalls
  /\ calls' = calls + 1
  /\ lastCall' = [apiKey |-> req.apiKey, waited |-> FALSE]
  /\ UNCHANGED <<now, jitter, scope, ready, client>>
  /\ UNCHANGED <<seVars, exVars, erVars, pyVars, ndVars>>
  /\ IF req.apiKey = NoApiKey
     THEN \* line 73-75: throw
          /\ lastResult' = "error"
          /\ UNCHANGED <<rateLimitState, admitLog, pc, callReq, callNow, wakeAt, chain>>
     ELSE IF classOf(req.method, req.url) = "NONE"
     THEN \* line 116-118: no rate limit for other methods
          /\ lastResult' = "unthrottled"
          /\ UNCHANGED <<rateLimitState, admitLog, pc, callReq, callNow, wakeAt, chain>>
     ELSE LET key == keyOf(req.apiKey, req.method, req.url)
              st  == IF rateLimitState[key] = NoState
                     THEN [windowStart |-> now, count |-> 0, pendingPromise |-> 0]
                     ELSE rateLimitState[key]
          IN  IF st.pendingPromise # 0
              THEN \* line 144-146: await state.pendingPromise
                   /\ pc' = [pc EXCEPT ![c] = "chained"]
                   /\ callReq' = [callReq EXCEPT ![c] = req]
                   /\ callNow' = [callNow EXCEPT ![c] = now]
                   /\ chain' = [chain EXCEPT ![st.pendingPromise] = Append(@, c)]
                   /\ UNCHANGED <<rateLimitState, admitLog, wakeAt, lastResult>>
              ELSE /\ CheckWaitIncrement(c, req, st, now)
                   /\ UNCHANGED chain
  /\ SendIfAcquired(c, req)

\* TimerFire without `state.count = 0` after the sleep (line 183 left out):
\* a variant the bound on count must tell from the code's
TimerFireKeepingCount(c) ==
  /\ pc[c] = "sleeping"
  /\ ready = <<>>
  /\ now >= wakeAt[c]
  /\ \A d \in Callers : pc[d] = "sleeping" => wakeAt[c] <= wakeAt[d]
  /\ LET key == keyOf(callReq[c].apiKey, callReq[c].method, callReq[c].url)
         st  == rateLimitState[key]
     IN  Admit(c, key, [st EXCEPT !.pendingPromise = 0, !.windowStart = now])
  /\ ready' = chain[c]
  /\ pc' = [d \in Callers |->
              IF d = c THEN "idle"
              ELSE IF \E i \in DOMAIN chain[c] : chain[c][i] = d THEN "ready"
              ELSE pc[d]]
  /\ chain' = [chain EXCEPT ![c] = <<>>]
  /\ lastCall' = [apiKey |-> callReq[c].apiKey, waited |-> TRUE]
  /\ SendIfAcquired(c, callReq[c])
  /\ UNCHANGED <<now, jitter, scope, calls, client>>
  /\ UNCHANGED <<seVars, exVars, erVars, pyVars, ndVars>>

\* TimerFire with the quota checked again after the sleep (the wait as a
\* loop): the woken caller is queued to run lines 148-188 once more, ahead
\* of the callers chained on its promise.  A variant "admitted after its own
\* sleep" must tell from the code's
TimerFireRechecking(c) ==
  /\ pc[c] = "sleeping"
  /\ ready = <<>>
  /\ now >= wakeAt[c]
  /\ \A d \in Callers : pc[d] = "sleeping" => wakeAt[c] <= wakeAt[d]
  /\ LET key == keyOf(callReq[c].apiKey, callReq[c].method, callReq[c].url)
     IN  rateLimitState' =
           [rateLimitState EXCEPT ![key] = [@ EXCEPT !.pendingPromise = 0]]
  /\ ready' = <<c>> \o chain[c]
  /\ pc' = [d \in Callers |->
              IF d = c \/ \E i \in DOMAIN chain[c] : chain[c][i] = d THEN "ready"
              ELSE pc[d]]
  /\ chain' = [chain EXCEPT ![c] = <<>>]
  /\ callNow' = [callNow EXCEPT ![c] = now]
  /\ wakeAt' = [wakeAt EXCEPT ![c] = 0]
  /\ lastCall' = [apiKey |-> callReq[c].apiKey, waited |-> TRUE]
  /\ UNCHANGED <<now, jitter, scope, calls, client, admitLog, callReq, lastResult,
                 acquired, sent>>
  /\ UNCHANGED <<seVars, exVars, erVars, pyVars, ndVars>>

\* The sleep() timer of caller c fires: lines 173-188 run, and the callers
\* chained on its promise are queued behind it in registration order.
TimerFire(c) ==
  /\ pc[c] = "sleeping"
  /\ ready = <<>>
  /\ now >= wakeAt[c]
  /\ \A d \in Callers : pc[d] = "sleeping" => wakeAt[c] <= wakeAt[d]
  /\ LET key == keyOf(callReq[c].apiKey, callReq[c].method, callReq[c].url)
         st  == rateLimitState[key]
     IN  Admit(c, key, [st EXCEPT !.pendingPromise = 0, !.windowStart = now, !.count = 0])
  /\ ready' = chain[c]
  /\ pc' = [d \in Callers |->
              IF d = c THEN "idle"
              ELSE IF \E i \in DOMAIN chain[c] : chain[c][i] = d THEN "ready"
              ELSE pc[d]]
  /\ chain' = [chain EXCEPT ![c] = <<>>]
  /\ lastCall' = [apiKey |-> callReq[c].apiKey, waited |-> TRUE]
  /\ SendIfAcquired(c, callReq[c])
  /\ UNCHANGED <<now, jitter, scope, calls, client>>
  /\ UNCHANGED <<seVars, exVars, erVars, pyVars, ndVars>>

\* A caller resumes after `await state.pendingPromise` (line 145) and runs
\* lines 148-188 with the `now` it captured before it was suspended.
Resume ==
  /\ ready # <<>>
  /\ LET c   == Head(ready)
         key == keyOf(callReq[c].apiKey, callReq[c].method, callReq[c].url)
     IN  CheckWaitIncrement(c, callReq[c], rateLimitState[key], callNow[c])
  /\ ready' = Tail(ready)
  /\ lastCall' = [apiKey |-> callReq[Head(ready)].apiKey, waited |-> TRUE]
  /\ SendIfAcquired(Head(ready), callReq[Head(ready)])
  /\ UNCHANGED <<now, jitter, scope, chain, calls, client>>
  /\ UNCHANGED <<seVars, exVars, erVars, pyVars, ndVars>>

\* the deadlines of the sleep() timers that are running
Deadlines == {wakeAt[c] : c \in {d \in Callers : pc[d] = "sleeping"}}

\* Times the clock may jump to: the next deadline of a timer or the end of a
\* window, or one millisecond on.  Past the horizon the clock only moves to
\* the deadline of a timer that is still running.
TickTargets ==
  Deadlines
    \cup {rateLimitState[k].windowStart + rateLimitOf(k).windowMs :
            k \in {q \in Keys : rateLimitState[q] # NoState}}

Tick ==
  /\ ready = <<>>
  /\ \/ /\ jitter < MaxJitter
        /\ now' = now + 1
        /\ jitter' = jitter + 1
     \/ /\ now' \in {t \in TickTargets : t > now}
        /\ jitter' = jitter
  /\ now' <= Horizon \/ now' \in Deadlines
  /\ UNCHANGED <<scope, rateLimitState, admitLog, pc, callReq, callNow, wakeAt,
                 chain, ready, lastResult, calls, lastCall, client, acquired, sent>>
  /\ UNCHANGED <<seVars, exVars, erVars, pyVars, ndVars>>

\* BunqHttpClient.request of utils/BunqHttpClient.ts: headers, signature,
\* and the request is handed to helpers.httpRequest; enforceRateLimit is
\* not called.
RequestPlain(req) ==
  /\ client = "plain"
  /\ calls < MaxCalls
  /\ calls' = calls + 1
  /\ sent' = [sent EXCEPT ![req] = @ + 1]
  /\ lastCall' = [apiKey |-> req.apiKey, waited |-> FALSE]
  /\ UNCHANGED <<now, jitter, scope, rateLimitState, admitLog, pc, callReq, callNow,
                 wakeAt, chain, ready, lastResult, client, acquired>>
  /\ UNCHANGED <<seVars, exVars, erVars, pyVars, ndVars>>

RLNext ==
  \/ \E c \in Callers : \E req \in scope : Enter(c, req)
  \/ \E req \in scope : RequestPlain(req)
  \/ \E c \in Callers : TimerFire(c)
  \/ Resume
  \/ Tick


\* ------------------------------------------------------------------------
\* bunqApiHelpers.ts: the session lifecycle
\* ------------------------------------------------------------------------
\* calls of ensureBunqSession in one run (each call has its own number)
MaxSessCalls == 3
\* calls that may await a response at the same time
MaxInFlight == 2
\* clock steps in one run of the session model
MaxClockSteps == 1

Calls == 1..MaxSessCalls

\* createSession line 162 and isSessionExpired line 205: 7 days, in seconds
DefaultSessionTimeout == 604800

\* What a node's context resolves for the two credential types: whether
\* 'bunqOAuth2Api' is configured and the access token it carries ("" when it
\* has none), whether 'bunqApi' is configured and its API key, and the
\* environment set in the credential.
Cfg(oc, at, ac, k, env) ==
  [oauthConfigured |-> oc, accessToken |-> at, apiConfigured |-> ac,
   apiKey |-> k, environment |-> env]

NoCfg == Cfg(FALSE, "", FALSE, "", "")

CfgApi1 == Cfg(FALSE, "", TRUE, "k1", "sandbox")
CfgApi2 == Cfg(FALSE, "", TRUE, "k2", "sandbox")
CfgOAuth == Cfg(TRUE, "at1", FALSE, "", "sandbox")
CfgOAuthNoTokenApi == Cfg(TRUE, "", TRUE, "k1", "sandbox")
CfgOAuthNoToken == Cfg(TRUE, "", FALSE, "", "production")
CfgBadEnv == Cfg(FALSE, "", TRUE, "k1", "staging")
CfgApiProd == Cfg(FALSE, "", TRUE, "k1", "production")

\* How the provider answers in a run: the session timeout its
\* session-creation responses carry (0: none reported), whether they carry
\* a user entry, and how a request that fails does so: a non-2xx answer
\* ("ApiCallFailed") or a response without the expected token or id
\* ("MalformedResponse").
Resp(t, u, f) == [timeout |-> t, user |-> u, failure |-> f]

\* A run: the revision of the helpers ("dual" is utils/bunqApiHelpers.ts,
\* API key or OAuth; "oauthOnly" is the revision whose ensureBunqSession
\* accepts OAuth credentials alone), the provider's responses, and the
\* credential set-ups of the callers, who all belong to one workflow and
\* share its static data. One run is drawn in Init.
Run(rev, resp, cfgs) == [revision |-> rev, server |-> resp, scope |-> cfgs]

SeRuns ==
  { Run("dual", Resp(1000, TRUE, "ApiCallFailed"), {CfgApi1}),
    Run("dual", Resp(0, TRUE, "MalformedResponse"), {CfgApi1}),
    Run("dual", Resp(1000, FALSE, "ApiCallFailed"), {CfgOAuth}),
    Run("dual", Resp(1000, TRUE, "ApiCallFailed"), {CfgApi1, CfgApi2}),
    Run("dual", Resp(1000, TRUE, "ApiCallFailed"), {CfgApi1, CfgApiProd}),
    Run("dual", Resp(1000, TRUE, "MalformedResponse"), {CfgOAuthNoTokenApi}),
    Run("dual", Resp(1000, TRUE, "ApiCallFailed"), {CfgOAuthNoToken}),
    Run("dual", Resp(1000, TRUE, "ApiCallFailed"), {CfgBadEnv}),
    Run("oauthOnly", Resp(1000, TRUE, "MalformedResponse"), {CfgOAuth}),
    Run("oauthOnly", Resp(1000, TRUE, "ApiCallFailed"), {CfgOAuthNoTokenApi}),
    Run("oauthOnly", Resp(1000, TRUE, "ApiCallFailed"), {CfgApi1}) }

\* A token or id handed out by the provider: the call and handshake step
\* whose request it answers, the call whose installation token
\* authenticated that request (0 for an installation), the secret the
\* request carried and the environment it was sent to.
Tok(c, k, i, s, e) == [call |-> c, step |-> k, inst |-> i, secret |-> s, environment |-> e]

NoTok == Tok(0, 0, 0, "", "")

EmptyRec ==
  [installationToken |-> NoTok, serverPublicKey |-> NoTok, deviceServerId |-> NoTok,
   sessionToken |-> NoTok, sessionCreatedAt |-> 0, sessionTimeout |-> 0,
   userId |-> "", environment |-> ""]

NoResult == [status |-> "none", kind |-> "", sessionToken |-> NoTok,
             userId |-> "", environment |-> ""]

\* getBunqBaseUrl: the environments it accepts
validEnvironment(environment) == environment \in {"sandbox", "production"}

\* isSessionExpired with the comparison `>=` in place of `>`: a variant the
\* expiry rule must tell from the code's
isSessionExpiredInclusive(createdAt, sessionTimeout) ==
  LET timeoutSeconds == IF sessionTimeout # 0 THEN sessionTimeout
                        ELSE DefaultSessionTimeout
      maxAge == timeoutSeconds * 500
  IN  (now - createdAt) >= maxAge

\* isSessionExpired(createdAt, sessionTimeout): the age is compared with
\* (timeoutSeconds * 0.5) * 1000 ms; `sessionTimeout || 604800` takes the
\* default for an absent or zero timeout.
isSessionExpired(createdAt, sessionTimeout) ==
  LET timeoutSeconds == IF sessionTimeout # 0 THEN sessionTimeout
                        ELSE DefaultSessionTimeout
      maxAge == timeoutSeconds * 500
  IN  (now - createdAt) > maxAge

\* the three `if` conditions of ensureBunqSession on the record rec
needInstallation(rec) ==
  rec.installationToken = NoTok \/ rec.serverPublicKey = NoTok

needDevice(rec) == rec.deviceServerId = NoTok

\* shouldCreateSession with the token test inverted (a session is created
\* whenever one is stored): a variant idempotence must tell from the code's
shouldCreateSessionStored(rec) ==
  \/ rec.sessionToken # NoTok
  \/ rec.sessionCreatedAt = 0
  \/ isSessionExpired(rec.sessionCreatedAt, rec.sessionTimeout)

shouldCreateSession(rec) ==
  \/ rec.sessionToken = NoTok
  \/ rec.sessionCreatedAt = 0
  \/ isSessionExpired(rec.sessionCreatedAt, rec.sessionTimeout)

\* The handshake steps a flow contains: the OAuth flow of the dual revision
\* has no device registration.
stepsOf(mode) ==
  IF mode = "oauth" /\ revision = "dual" THEN {1, 3} ELSE {1, 2, 3}

\* nextStep with an installation requested anew whenever a stored session
\* has to be replaced: a variant "only the session is renewed" must tell from
\* the code's
nextStepRenewingAll(rec, from, mode) ==
  IF from <= 1 /\ (needInstallation(rec)
                     \/ (rec.sessionToken # NoTok /\ shouldCreateSession(rec)))
  THEN 1
  ELSE IF from <= 2 /\ 2 \in stepsOf(mode) /\ needDevice(rec) THEN 2
  ELSE IF from <= 3 /\ shouldCreateSession(rec) THEN 3
  ELSE 4

\* The first step from `from` on whose condition holds on rec; 4 = return.
nextStep(rec, from, mode) ==
  IF from <= 1 /\ needInstallation(rec) THEN 1
  ELSE IF from <= 2 /\ 2 \in stepsOf(mode) /\ needDevice(rec) THEN 2
  ELSE IF from <= 3 /\ shouldCreateSession(rec) THEN 3
  ELSE 4

\* which flow ensureBunqSession dispatches to
modeOf(cfg) ==
  IF revision = "oauthOnly" THEN "oauth"
  ELSE IF cfg.oauthConfigured /\ cfg.accessToken # "" THEN "oauth"
  ELSE "api"

\* entryError without the test of the environment: the base URL is looked up
\* only when the first request is built.  A variant "an invalid environment
\* fails before the record is cleared" must tell from the code's
entryErrorNoEnvironment(cfg) ==
  IF revision = "oauthOnly"
  THEN IF ~cfg.oauthConfigured THEN "NoCredentials"
       ELSE IF cfg.accessToken = "" THEN "OAuthTokenRequired"
       ELSE ""
  ELSE IF modeOf(cfg) = "oauth" THEN ""
       ELSE IF ~cfg.apiConfigured THEN "NoCredentials"
       ELSE ""

\* the error raised before the static data is read, "" if none
entryError(cfg) ==
  IF revision = "oauthOnly"
  THEN IF ~cfg.oauthConfigured THEN "NoCredentials"
       ELSE IF cfg.accessToken = "" THEN "OAuthTokenRequired"
       ELSE IF ~validEnvironment(cfg.environment) THEN "InvalidEnvironment"
       ELSE ""
  ELSE IF modeOf(cfg) = "oauth"
       THEN IF ~validEnvironment(cfg.environment) THEN "InvalidEnvironment" ELSE ""
       ELSE IF ~cfg.apiConfigured THEN "NoCredentials"
       ELSE IF ~validEnvironment(cfg.environment) THEN "InvalidEnvironment"
       ELSE ""

\* the secret a flow sends: the access token or the API key
secretOf(cfg, mode) == IF mode = "oauth" THEN cfg.accessToken ELSE cfg.apiKey

\* the static-data key a flow stores its record under
staticKey(mode) == IF mode = "oauth" THEN "bunqSessionOAuth" ELSE "bunqSession"

\* how the stored record looks to a call that begins
startClass(rec, mode) ==
  IF needInstallation(rec) THEN "empty"
  ELSE IF 2 \in stepsOf(mode) /\ needDevice(rec) THEN "installed"
  ELSE IF rec.sessionToken = NoTok \/ rec.sessionCreatedAt = 0 THEN "registered"
  ELSE IF isSessionExpired(rec.sessionCreatedAt, rec.sessionTimeout) THEN "expired"
  ELSE "active"

\* the session state before the first call
SeRest ==
  /\ ticks = 0
  /\ staticData = [bunqSession |-> 0, bunqSessionOAuth |-> 0]
  /\ heap = [o \in Calls |-> EmptyRec]
  /\ spc = [c \in Calls |-> "new"]
  /\ scfg = [c \in Calls |-> NoCfg]
  /\ sforce = [c \in Calls |-> FALSE]
  /\ smode = [c \in Calls |-> ""]
  /\ sobj = [c \in Calls |-> 0]
  /\ sreqs = [c \in Calls |-> <<>>]
  /\ sarg = [c \in Calls |-> 0]
  /\ sstart = [c \in Calls |-> ""]
  /\ sover = [c \in Calls |-> {}]
  /\ sprev = [c \in Calls |-> 0]
  /\ sresult = [c \in Calls |-> NoResult]
  /\ lastEvent = [call |-> 0, at |-> 0]

SeInit ==
  /\ \E r \in SeRuns :
       /\ revision = r.revision
       /\ server = r.server
       /\ seScope = r.scope
  /\ SeRest

\* the session model at rest, for runs of the rate limiter
SeIdle ==
  /\ revision = "dual"
  /\ server = Resp(0, TRUE, "ApiCallFailed")
  /\ seScope = {}
  /\ SeRest

\* Call c, holding object o of heap h, runs the checks of the steps from
\* `from` on: it sends the request of the first step that is needed
\* (createInstallation, registerDevice or createSession are called with the
\* record's installation token and the secret), or sets the environment and
\* returns the record (lines 341-383).
Continue(c, cfg, mode, o, h, from) ==
  LET k == nextStep(h[o], from, mode)
  IN  IF k = 4
      THEN /\ heap' = [h EXCEPT ![o].environment = cfg.environment]
           /\ spc' = [spc EXCEPT ![c] = "done"]
           /\ sresult' = [sresult EXCEPT ![c] =
                [status |-> "ok", kind |-> "",
                 sessionToken |-> h[o].sessionToken,
                 userId |-> h[o].userId,
                 environment |-> cfg.environment]]
           /\ lastEvent' = [call |-> c, at |-> now]
           /\ sarg' = [sarg EXCEPT ![c] = 0]
           /\ UNCHANGED sreqs
      ELSE /\ heap' = h
           /\ sreqs' = [sreqs EXCEPT ![c] = Append(@, k)]
           /\ sarg' = [sarg EXCEPT ![c] =
                         IF k = 1 THEN 0 ELSE h[o].installationToken.call]
           /\ spc' = [spc EXCEPT ![c] = "await"]
           /\ lastEvent' = [call |-> 0, at |-> 0]
           /\ UNCHANGED sresult

\* ensureBunqSession(forceRecreate) is called in a context whose credentials
\* are cfg: dispatch on the credential type, validation, the read of the
\* static data, the wipe, and the checks up to the first request or return.
Begin(c, cfg, force) ==
  /\ spc[c] = "new"
  /\ \A d \in Calls : d < c => spc[d] # "new"
  /\ Cardinality({d \in Calls : spc[d] = "await"}) < MaxInFlight
  /\ scfg' = [scfg EXCEPT ![c] = cfg]
  /\ sforce' = [sforce EXCEPT ![c] = force]
  /\ sover' = [sover EXCEPT ![c] = {d \in Calls : spc[d] = "await"}]
  /\ sprev' = [sprev EXCEPT ![c] = IF lastEvent.call # 0 /\ lastEvent.at = now
                                   THEN lastEvent.call ELSE 0]
  /\ UNCHANGED <<revision, server, seScope, ticks, now, rlRest, exVars, erVars, pyVars, ndVars>>
  /\ IF entryError(cfg) # ""
     THEN /\ spc' = [spc EXCEPT ![c] = "failed"]
          /\ sresult' = [sresult EXCEPT ![c] =
               [NoResult EXCEPT !.status = "error", !.kind = entryError(cfg)]]
          /\ lastEvent' = [call |-> 0, at |-> 0]
          /\ UNCHANGED <<staticData, heap, smode, sobj, sreqs, sarg, sstart>>
     ELSE LET mode   == modeOf(cfg)
              key    == staticKey(mode)
              stored == staticData[key]
              fresh  == force \/ stored = 0
              o      == IF fresh THEN c ELSE stored
              h      == IF fresh THEN [heap EXCEPT ![c] = EmptyRec] ELSE heap
          IN  /\ smode' = [smode EXCEPT ![c] = mode]
              /\ sobj' = [sobj EXCEPT ![c] = o]
              /\ sstart' = [sstart EXCEPT ![c] =
                   IF stored = 0 THEN "empty" ELSE startClass(heap[stored], mode)]
              /\ staticData' = IF force THEN [staticData EXCEPT ![key] = c]
                               ELSE staticData
              /\ Continue(c, cfg, mode, o, h, 1)

\* what a successful response to call c's request of step k writes into
\* record rec (createInstallation / registerDevice / createSession and the
\* assignments that follow the call)
storeResult(rec, c, k, inst, secret, env, resp) ==
  CASE k = 1 -> [rec EXCEPT !.installationToken = Tok(c, 1, 0, "", env),
                            !.serverPublicKey = Tok(c, 1, 0, "", env)]
    [] k = 2 -> [rec EXCEPT !.deviceServerId = Tok(c, 2, inst, secret, env)]
    [] k = 3 -> [rec EXCEPT !.sessionToken = Tok(c, 3, inst, secret, env),
                            !.sessionCreatedAt = now,
                            !.userId = IF resp.user THEN secret ELSE "",
                            !.sessionTimeout = IF resp.timeout # 0 THEN resp.timeout
                                               ELSE DefaultSessionTimeout]

\* The response of the request call c awaits arrives with a usable payload:
\* the result is stored in the record, the record is stored in the static
\* data, and the call goes on with the next step.
RecvOk(c) ==
  /\ spc[c] = "await"
  /\ LET k    == sreqs[c][Len(sreqs[c])]
         o    == sobj[c]
         mode == smode[c]
         h    == [heap EXCEPT ![o] =
                    storeResult(heap[o], c, k, sarg[c], secretOf(scfg[c], mode),
                                scfg[c].environment, server)]
     IN  /\ staticData' = [staticData EXCEPT ![staticKey(mode)] = o]
         /\ Continue(c, scfg[c], mode, o, h, k + 1)
  /\ UNCHANGED <<revision, server, seScope, ticks, scfg, sforce, smode, sobj, sstart,
                 sover, sprev, now, rlRest, exVars, erVars, pyVars, ndVars>>

\* RecvFail with one more attempt at the failed request before the error is
\* raised: a variant "no retry" must tell from the code's
RecvFailRetrying(c) ==
  /\ spc[c] = "await"
  /\ IF Len(sreqs[c]) < 4
     THEN /\ sreqs' = [sreqs EXCEPT ![c] = Append(@, @[Len(@)])]
          /\ UNCHANGED <<spc, sresult, sarg>>
     ELSE /\ spc' = [spc EXCEPT ![c] = "failed"]
          /\ sresult' = [sresult EXCEPT ![c] =
               [NoResult EXCEPT !.status = "error", !.kind = server.failure]]
          /\ sarg' = [sarg EXCEPT ![c] = 0]
          /\ UNCHANGED sreqs
  /\ lastEvent' = [call |-> 0, at |-> 0]
  /\ UNCHANGED <<revision, server, seScope, ticks, staticData, heap, scfg, sforce,
                 smode, sobj, sstart, sover, sprev, now, rlRest, exVars, erVars, pyVars, ndVars>>

\* RecvFail with the stored record dropped when a step fails: a variant
\* "a failure keeps what was reached" must tell from the code's
RecvFailClearing(c) ==
  /\ spc[c] = "await"
  /\ spc' = [spc EXCEPT ![c] = "failed"]
  /\ sresult' = [sresult EXCEPT ![c] =
       [NoResult EXCEPT !.status = "error", !.kind = server.failure]]
  /\ sarg' = [sarg EXCEPT ![c] = 0]
  /\ lastEvent' = [call |-> 0, at |-> 0]
  /\ staticData' = [staticData EXCEPT ![staticKey(smode[c])] = 0]
  /\ UNCHANGED <<revision, server, seScope, ticks, heap, scfg, sforce,
                 smode, sobj, sreqs, sstart, sover, sprev, now, rlRest, exVars, erVars, pyVars, ndVars>>

\* The request call c awaits fails, with a non-2xx answer or a response
\* without the expected token or id; the error leaves ensureBunqSession.
RecvFail(c) ==
  /\ spc[c] = "await"
  /\ spc' = [spc EXCEPT ![c] = "failed"]
  /\ sresult' = [sresult EXCEPT ![c] =
       [NoResult EXCEPT !.status = "error", !.kind = server.failure]]
  /\ sarg' = [sarg EXCEPT ![c] = 0]
  /\ lastEvent' = [call |-> 0, at |-> 0]
  /\ UNCHANGED <<revision, server, seScope, ticks, staticData, heap, scfg, sforce,
                 smode, sobj, sreqs, sstart, sover, sprev, now, rlRest, exVars, erVars, pyVars, ndVars>>

\* Times the clock may jump to: the last valid and the first expired instant
\* of a stored session.
SeTickTargets ==
  UNION {{heap[o].sessionCreatedAt + heap[o].sessionTimeout * 500,
          heap[o].sessionCreatedAt + heap[o].sessionTimeout * 500 + 1} :
           o \in {q \in Calls : heap[q].sessionCreatedAt # 0}}

SeTick ==
  /\ ticks < MaxClockSteps
  /\ ticks' = ticks + 1
  /\ now' \in {t \in SeTickTargets : t > now}
  /\ lastEvent' = [call |-> 0, at |-> 0]
  /\ UNCHANGED <<revision, server, seScope, staticData, heap, spc, scfg, sforce,
                 smode, sobj, sreqs, sarg, sstart, sover, sprev, sresult, rlRest, exVars, erVars, pyVars, ndVars>>

\* the rate limiter at rest, for runs of the session model (the clock
\* starts at 1: a creation time of 0 reads as "no session")
RLAtRest ==
  /\ jitter = 0
  /\ scope = {}
  /\ rateLimitState = [k \in Keys |-> NoState]
  /\ admitLog = [k \in Keys |-> <<>>]
  /\ pc = [c \in Callers |-> "idle"]
  /\ callReq = [c \in Callers |-> NoReq]
  /\ callNow = [c \in Callers |-> 0]
  /\ wakeAt = [c \in Callers |-> 0]
  /\ chain = [c \in Callers |-> <<>>]
  /\ ready = <<>>
  /\ lastResult = "none"
  /\ calls = 0
  /\ lastCall = NoCall
  /\ client = "rateLimited"
  /\ acquired = [r \in AllReqs |-> 0]
  /\ sent = [r \in AllReqs |-> 0]

RLIdle == now = 1 /\ RLAtRest

SeNext ==
  \/ \E c \in Calls : \E cfg \in seScope : \E force \in BOOLEAN : Begin(c, cfg, force)
  \/ \E c \in Calls : RecvOk(c)
  \/ \E c \in Calls : RecvFail(c)
  \/ SeTick

\* ------------------------------------------------------------------------
\* bunqApiHelpers.ts: isSessionExpired on its own
\* ------------------------------------------------------------------------
\* session timeouts in seconds (0: none stored), creation times and ages in
\* ms; the ages lie on and around half of each timeout
ExTimeouts == {0, 1, 2, 1000}

ExCreated == {1, 5000}

ExAges == {0, 499, 500, 501, 999, 1000, 1001, 499000, 500000, 500001,
           302400000, 302400001}

\* no call of isSessionExpired under observation
ExIdle ==
  /\ exCreatedAt = 0
  /\ exTimeout = 0
  /\ exResult = "none"

\* a stored session of some age, not yet examined
ExInit ==
  /\ exCreatedAt \in ExCreated
  /\ exTimeout \in ExTimeouts
  /\ \E age \in ExAges : now = exCreatedAt + age
  /\ exResult = "none"

\* isSessionExpired(sessionData.sessionCreatedAt, sessionData.sessionTimeout)
ExCheck ==
  /\ exResult = "none"
  /\ exResult' = IF isSessionExpired(exCreatedAt, exTimeout) THEN "expired" ELSE "valid"
  /\ UNCHANGED <<exCreatedAt, exTimeout, rlVars, seVars, erVars, pyVars, ndVars>>

\* a session is created and stored: sessionCreatedAt = Date.now(), and the
\* timeout of the response (createSession reports 604800 when the response
\* has none)
ExRenew ==
  /\ exResult # "none"
  /\ exCreatedAt' = now
  /\ exTimeout' \in (ExTimeouts \ {0}) \cup {DefaultSessionTimeout}
  /\ exResult' = "none"
  /\ UNCHANGED <<rlVars, seVars, erVars, pyVars, ndVars>>

ExNext ==
  \/ ExCheck
  \/ ExRenew

\* ------------------------------------------------------------------------
\* BunqHttpClient.request: the failure path
\* ------------------------------------------------------------------------
\* A thrown value is described by what the catch block looks at:
\*   kind       "Error" (instanceof Error), "object" (any other object) or
\*              "primitive" (a string, undefined, ...)
\*   response   "absent" (no 'response' key), "undefined" (the key holds a
\*              falsy value) or "present" (a response object)
\*   message    the message, a sequence of text parts; <<>> is the empty
\*              string
\*   data       response.data: "json" (JSON.stringify accepts it), "circular"
\*              (an object JSON.stringify rejects) or "bigint" (a primitive
\*              JSON.stringify rejects)
\*   status     response.status; 0 stands for an absent status
\*   responseId the x-bunq-client-response-id header; "" when absent
ErrKinds == {"Error", "object"}

Messages == {<<>>, <<"Request failed">>}

DataKinds == {"json", "circular", "bigint"}

Statuses == {0, 302, 404}

ResponseIds == {"", "rid"}

NoResponse(k, r, m) ==
  [kind |-> k, response |-> r, message |-> m, data |-> "json", status |-> 0,
   responseId |-> ""]

ThrownValues ==
  {[kind |-> k, response |-> "present", message |-> m, data |-> d,
    status |-> st, responseId |-> id] :
     k \in ErrKinds, m \in Messages, d \in DataKinds, st \in Statuses,
     id \in ResponseIds}
  \cup {NoResponse(k, r, m) :
          k \in ErrKinds, r \in {"absent", "undefined"}, m \in Messages}
  \cup {NoResponse("primitive", "absent", <<>>)}

NoOutcome == [thrown |-> "none", message |-> <<>>, logged |-> FALSE]

\* typeof data === 'object'
isObject(data) == data = "circular"

\* JSON.stringify accepts the data
stringifies(data) == data \in {"json", "[Complex Object]"}

\* the errorDetails object that is stringified: the response id (or 'N/A'),
\* the status and the data as given
errorDetails(e, data) ==
  [responseId |-> IF e.responseId # "" THEN e.responseId ELSE "N/A",
   statusCode |-> e.status,
   data |-> data]

\* the data of the second, unguarded JSON.stringify
fallbackData(data) == IF isObject(data) THEN "[Complex Object]" ELSE data

\* errorWithResponse.message || 'API request failed'
originalMessage(e) ==
  IF e.message # <<>> THEN e.message ELSE <<"API request failed">>

DetailsHeader == "\n\nAPI Response Details:\n"

\* error.message once errorDetailsString is known
enhancedMessage(e, details) == originalMessage(e) \o <<DetailsHeader, details>>

\* enhanceErrorWithDetails(error, ...) followed by `throw error`: what leaves
\* request.  thrown is "same" when the caught value is rethrown, "TypeError"
\* when the second JSON.stringify throws out of the catch block.
enhanceErrorWithDetails(e) ==
  IF e.kind \in ErrKinds /\ e.response = "present"
  THEN LET logged == e.status >= 400
           enhanced(data) ==
             [thrown |-> "same",
              message |-> IF e.kind = "Error"
                          THEN enhancedMessage(e, errorDetails(e, data))
                          ELSE e.message,
              logged |-> logged]
       IN IF stringifies(e.data) THEN enhanced(e.data)
          ELSE IF stringifies(fallbackData(e.data))
          THEN enhanced(fallbackData(e.data))
          ELSE [thrown |-> "TypeError", message |-> e.message, logged |-> logged]
  ELSE [thrown |-> "same", message |-> e.message, logged |-> FALSE]

\* no failed request under observation
ErIdle ==
  /\ erIn = NoResponse("primitive", "absent", <<>>)
  /\ erOut = NoOutcome

\* helpers.httpRequest has thrown some value inside request
ErInit ==
  /\ erIn \in ThrownValues
  /\ erOut = NoOutcome

\* the catch block of request
RequestFails ==
  /\ erOut = NoOutcome
  /\ erOut' = enhanceErrorWithDetails(erIn)
  /\ UNCHANGED <<erIn, rlVars, seVars, exVars, pyVars, ndVars>>

\* the caller issues another request, which fails with some value
RequestAgain ==
  /\ erOut # NoOutcome
  /\ erIn' \in ThrownValues
  /\ erOut' = NoOutcome
  /\ UNCHANGED <<rlVars, seVars, exVars, pyVars, ndVars>>

ErNext ==
  \/ RequestFails
  \/ RequestAgain

\* ------------------------------------------------------------------------
\* Payments.execute: the page walk
\* ------------------------------------------------------------------------
MaxPages == 2

MaxItems == 2

MaxLimit == 3

\* An item of response.Response: a payment created on or after the date
\* cutoff ("new"), a payment created before it ("old"), or an entry without a
\* Payment key ("other").
ItemKinds == {"new", "old", "other"}

PageSet == UNION {[1..n -> ItemKinds] : n \in 0..MaxItems}

\* the payments of a page, as <<page, index>> pairs in the order of the page
RECURSIVE paymentsFrom(_, _, _)
paymentsFrom(pages, p, i) ==
  IF p > Len(pages) THEN <<>>
  ELSE IF i > Len(pages[p]) THEN paymentsFrom(pages, p + 1, 1)
  ELSE IF pages[p][i] = "other" THEN paymentsFrom(pages, p, i + 1)
  ELSE <<(<<p, i>>)>> \o paymentsFrom(pages, p, i + 1)

kindOf(pages, pm) == pages[pm[1]][pm[2]]

\* the API lists payments newest first: no payment follows an older one
newestFirst(pages) ==
  LET ps == paymentsFrom(pages, 1, 1)
  IN \A i, j \in DOMAIN ps :
       i < j /\ kindOf(pages, ps[i]) = "old" => kindOf(pages, ps[j]) = "old"

PageChains ==
  {pages \in UNION {[1..n -> PageSet] : n \in 1..MaxPages} : newestFirst(pages)}

\* additionalOptions (limit 0 stands for an absent limit as well), the
\* revision of the node ("strip" removes a leading /v1 from older_url, "raw"
\* requests older_url as given), and what the API holds: the pages and whether
\* its older_url values start with /v1
PyInputs ==
  [limit : 0..MaxLimit, lastDays : BOOLEAN, revision : {"strip", "raw"},
   olderPrefix : {"/v1", ""}, pages : PageChains]

NoUrl == [prefix |-> "", page |-> 0]

Url(prefix, page) == [prefix |-> prefix, page |-> page]

\* `/user/${userId}/monetary-account/${id}/payment?count=${itemsPerPage}`
firstUrl == Url("", 1)

\* response.Pagination.older_url of page p: the last page has none
olderUrl(in, p) ==
  IF p < Len(in.pages) THEN Url(in.olderPrefix, p + 1) ELSE NoUrl

returnAll(in) == in.limit = 0

\* the scan that never looks at the limit
RECURSIVE scanPageNoLimit(_, _, _, _)
scanPageNoLimit(in, p, i, all) ==
  IF i > Len(in.pages[p]) THEN <<all, TRUE>>
  ELSE IF in.pages[p][i] = "other" THEN scanPageNoLimit(in, p, i + 1, all)
  ELSE IF in.lastDays /\ in.pages[p][i] = "old" THEN <<all, FALSE>>
  ELSE scanPageNoLimit(in, p, i + 1, Append(all, <<p, i>>))

\* the for loop over response.Response of page p from item i on, with its two
\* breaks: <<allPayments, shouldContinue>> after the loop
RECURSIVE scanPage(_, _, _, _)
scanPage(in, p, i, all) ==
  IF i > Len(in.pages[p]) THEN <<all, TRUE>>
  ELSE IF in.pages[p][i] = "other" THEN scanPage(in, p, i + 1, all)
  ELSE IF in.lastDays /\ in.pages[p][i] = "old" THEN <<all, FALSE>>
  ELSE LET pushed == Append(all, <<p, i>>)
       IN IF ~returnAll(in) /\ Len(pushed) >= in.limit
          THEN <<pushed, FALSE>>
          ELSE scanPage(in, p, i + 1, pushed)

\* paginationUrl.startsWith('/v1/') ? paginationUrl.substring(3) : paginationUrl
stripV1(in, url) ==
  IF in.revision = "strip" /\ url.prefix = "/v1" THEN Url("", url.page) ELSE url

\* the choice that follows older_url whatever the scan decided
pickNextAlways(in, p, cont, url) ==
  IF olderUrl(in, p) # NoUrl
  THEN <<stripV1(in, olderUrl(in, p)), TRUE>>
  ELSE <<url, FALSE>>

\* "Get the next page URL from pagination": <<nextUrl, shouldContinue>>
pickNext(in, p, cont, url) ==
  IF cont /\ olderUrl(in, p) # NoUrl
  THEN <<stripV1(in, olderUrl(in, p)), TRUE>>
  ELSE <<url, FALSE>>

\* allPayments.slice(0, limit) when the limit is exceeded
applyLimit(in, all) ==
  IF ~returnAll(in) /\ Len(all) > in.limit THEN SubSeq(all, 1, in.limit) ELSE all

\* no Payments execution under observation
PyIdle ==
  /\ pyIn = [limit |-> 0, lastDays |-> FALSE, revision |-> "strip",
             olderPrefix |-> "/v1", pages |-> <<(<<>>)>>]
  /\ nextUrl = NoUrl
  /\ shouldContinue = FALSE
  /\ allPayments = <<>>
  /\ requested = <<>>
  /\ returnData = <<>>
  /\ pyStatus = "returned"

\* execute has its session and client and is about to enter the while loop
PyInit ==
  /\ pyIn \in PyInputs
  /\ nextUrl = firstUrl
  /\ shouldContinue = TRUE
  /\ allPayments = <<>>
  /\ requested = <<>>
  /\ returnData = <<>>
  /\ pyStatus = "walking"

\* while (shouldContinue && nextUrl)
looping == pyStatus = "walking" /\ shouldContinue /\ nextUrl # NoUrl

\* One turn of the while loop: client.request answers with the page, the
\* payments are scanned, the next URL is chosen.  baseUrl ends in /v1, so a
\* URL that still starts with /v1 names no page of the API and is never
\* answered.
FetchPage ==
  /\ looping
  /\ nextUrl.prefix = ""
  /\ Len(requested) <= MaxPages
  /\ LET p == nextUrl.page
         scanned == scanPage(pyIn, p, 1, allPayments)
         next == pickNext(pyIn, p, scanned[2], nextUrl)
     IN /\ requested' = Append(requested, nextUrl)
        /\ allPayments' = scanned[1]
        /\ nextUrl' = next[1]
        /\ shouldContinue' = next[2]
  /\ UNCHANGED <<pyIn, returnData, pyStatus, rlVars, seVars, exVars, erVars, ndVars>>

\* client.request throws: execute ends with that error
FetchFails ==
  /\ looping
  /\ Len(requested) <= MaxPages
  /\ requested' = Append(requested, nextUrl)
  /\ pyStatus' = "failed"
  /\ UNCHANGED <<pyIn, nextUrl, shouldContinue, allPayments, returnData,
                 rlVars, seVars, exVars, erVars, ndVars>>

\* the loop has ended: the limit is applied and the payments are returned
ReturnPayments ==
  /\ pyStatus = "walking"
  /\ ~(shouldContinue /\ nextUrl # NoUrl)
  /\ returnData' = applyLimit(pyIn, allPayments)
  /\ pyStatus' = "returned"
  /\ UNCHANGED <<pyIn, nextUrl, shouldContinue, allPayments, requested,
                 rlVars, seVars, exVars, erVars, ndVars>>

PyNext ==
  \/ FetchPage
  \/ FetchFails
  \/ ReturnPayments

\* ------------------------------------------------------------------------
\* BunqHttpClient.request: the request that is built
\* ------------------------------------------------------------------------
\* The headers the model follows.  A header value is "" when the header is
\* absent; a signature is described by the data and the key it was made
\* from.
HeaderNames == {"X-Bunq-Client-Authentication", "X-Bunq-Client-Signature", "X-Custom"}

Bodies == {"", "b1", "b2"}
SessionTokens == {"", "s1"}
PrivateKeys == {"", "pk"}

\* signData(data, privateKey): the RSA-SHA256 signature of data under the
\* key, a function of both
signData(data, privateKey) == [data |-> data, key |-> privateKey]

NoSignature == signData("", "")

\* what a header is set to when the caller names it in additionalHeaders
ExtraValue(h) ==
  IF h = "X-Bunq-Client-Signature" THEN signData("b0", "pk0") ELSE "extra"

\* what an absent header reads as
Absent(h) == IF h = "X-Bunq-Client-Signature" THEN NoSignature ELSE ""

\* additionalHeaders is described by the names it sets
RqInputs ==
  [method : {"GET", "POST"}, body : Bodies, sessionToken : SessionTokens,
   privateKey : PrivateKeys, additionalHeaders : SUBSET HeaderNames]

NoRqIn == [method |-> "", body |-> "", sessionToken |-> "", privateKey |-> "",
           additionalHeaders |-> {}]

NoRequest == [method |-> "", headers |-> [h \in HeaderNames |-> Absent(h)],
              hasBody |-> FALSE, body |-> ""]

\* headersOf with the signature made whenever a private key is present,
\* with or without a body: a variant the header rule must tell from the
\* code's
headersOfSigningAlways(in) ==
  [h \in HeaderNames |->
     IF h = "X-Bunq-Client-Authentication" /\ in.sessionToken # ""
       THEN in.sessionToken
     ELSE IF h = "X-Bunq-Client-Signature" /\ in.privateKey # ""
       THEN signData(in.body, in.privateKey)
     ELSE IF h \in in.additionalHeaders THEN ExtraValue(h)
     ELSE Absent(h)]

\* The headers of the request: the fixed ones (not followed here), then
\* `...additionalHeaders`, then the authentication header `if
\* (sessionToken)` and the signature header `if (body && privateKey)`, each
\* replacing an entry of the same name.  The private key is the one of the
\* options in utils/BunqHttpClient.ts and the credential's in the
\* rate-limited client.
headersOf(in) ==
  [h \in HeaderNames |->
     IF h = "X-Bunq-Client-Authentication" /\ in.sessionToken # ""
       THEN in.sessionToken
     ELSE IF h = "X-Bunq-Client-Signature" /\ in.body # "" /\ in.privateKey # ""
       THEN signData(in.body, in.privateKey)
     ELSE IF h \in in.additionalHeaders THEN ExtraValue(h)
     ELSE Absent(h)]

\* httpRequestOptions: method, headers, and the body `if (body)`
httpRequestOptions(in) ==
  [method |-> in.method, headers |-> headersOf(in),
   hasBody |-> in.body # "", body |-> in.body]

\* no request is being built
RqIdle == rqIn = NoRqIn /\ rqOut = NoRequest

\* a call of request with some options, before the request is built
RqInit == rqIn \in RqInputs /\ rqOut = NoRequest

\* request builds httpRequestOptions and hands it to helpers.httpRequest
BuildRequest ==
  /\ rqIn # NoRqIn
  /\ rqOut = NoRequest
  /\ rqOut' = httpRequestOptions(rqIn)
  /\ UNCHANGED <<rqIn, rlVars, seVars, exVars, erVars, pyVars, heVars, cpVars, btVars>>

RqNext == BuildRequest

\* ------------------------------------------------------------------------
\* BunqHttpClient.handleExecuteError
\* ------------------------------------------------------------------------
MaxHeItems == 2

\* the errors handed to handleExecuteError: thrown values as request
\* rethrows them, with data that stringifies
HeErrors == {e \in ThrownValues : e.data = "json" /\ e.responseId = ""}

HeInputs == [error : HeErrors, items : 0..MaxHeItems, continueOnFail : BOOLEAN]

NoHeIn == [error |-> NoResponse("primitive", "absent", <<>>), items |-> 0,
           continueOnFail |-> FALSE]

NoHandled == [status |-> "none", returnData |-> <<>>,
              thrown |-> NoResponse("primitive", "absent", <<>>)]

\* error instanceof Error ? error.message : 'Unknown error'
errorMessage(error) ==
  IF error.kind = "Error" THEN error.message ELSE <<"Unknown error">>

\* error?.response?.status, 0 for undefined
statusCode(error) == IF error.response = "present" THEN error.status ELSE 0

\* the item items.map builds for the input item of index i (from 0)
errorItem(error, i) ==
  [error |-> errorMessage(error), statusCode |-> statusCode(error),
   pairedItem |-> i]

\* handleExecuteError with one error item for the whole batch, paired with
\* the first input item: a variant "one per input item" must tell from the
\* code's
handleExecuteErrorOnce(error, items, continueOnFail) ==
  IF continueOnFail
  THEN [status |-> "returned", returnData |-> <<errorItem(error, 0)>>,
        thrown |-> NoHandled.thrown]
  ELSE [status |-> "thrown", returnData |-> <<>>, thrown |-> error]

\* handleExecuteError(error, items, continueOnFail)
handleExecuteError(error, items, continueOnFail) ==
  IF continueOnFail
  THEN [status |-> "returned",
        returnData |-> [i \in 1..items |-> errorItem(error, i - 1)],
        thrown |-> NoHandled.thrown]
  ELSE [status |-> "thrown", returnData |-> <<>>, thrown |-> error]

\* no call of handleExecuteError under observation
HeIdle == heIn = NoHeIn /\ heOut = NoHandled

\* an execute() has caught some error with some items at hand
HeInit == heIn \in HeInputs /\ heOut = NoHandled

\* the catch block of an execute() calls handleExecuteError
HandleError ==
  /\ heOut = NoHandled
  /\ heOut' = handleExecuteError(heIn.error, heIn.items, heIn.continueOnFail)
  /\ heOut' # NoHandled
  /\ UNCHANGED <<heIn, rlVars, seVars, exVars, erVars, pyVars, rqVars, cpVars, btVars>>

HeNext == HandleError

\* ------------------------------------------------------------------------
\* CreatePayment.execute
\* ------------------------------------------------------------------------
MaxCpItems == 2

\* An amount is the string of its characters.
Digits == {"0", "1"}

isDigits(a) == a # <<>> /\ \A i \in DOMAIN a : a[i] \in Digits

\* /^\d+\.?\d*$/ in place of amountRegex: any number of decimals and a bare
\* trailing point pass.  A variant the validation rule must tell from the
\* code's
amountRegexLax(a) ==
  \E k \in 1..Len(a) :
    /\ isDigits(SubSeq(a, 1, k))
    /\ \/ k = Len(a)
       \/ /\ a[k + 1] = "."
          /\ \A i \in (k + 2)..Len(a) : a[i] \in Digits

\* amountRegex.test(amount) for /^\d+(\.\d{1,2})?$/: one or more digits,
\* then nothing or a point and one or two digits
amountRegex(a) ==
  \E k \in 1..Len(a) :
    /\ isDigits(SubSeq(a, 1, k))
    /\ \/ k = Len(a)
       \/ /\ a[k + 1] = "."
          /\ Len(a) - (k + 1) \in 1..2
          /\ isDigits(SubSeq(a, k + 2, Len(a)))

\* the recipient values of the model; " " is a string of white space
isBlank(v) == v \in {"", " "}

\* emailRegex.test(value) for /^[^\s@]+@[^\s@]+\.[^\s@]+$/
emailRegex(v) == v = "a@b.c"

CpItem(a, id, pt, rt, v) ==
  [amount |-> a, monetaryAccountId |-> id, paymentType |-> pt,
   recipientType |-> rt, recipientValue |-> v]

\* an item that passes every check, and items that differ from it in one
\* parameter
ValidItem == CpItem(<<"1", ".", "0", "0">>, 1, "actual", "iban", "NL00")

CpAmounts ==
  { <<>>, <<"1">>, <<"1", ".">>, <<"1", ".", "0">>, <<"1", ".", "0", "0", "0">>,
    <<".", "1">>, <<"-", "1">>, <<"1", "0", "x">> }

CpItemKinds ==
  {ValidItem, [ValidItem EXCEPT !.paymentType = "draft"]}
    \cup {[ValidItem EXCEPT !.amount = a] : a \in CpAmounts}
    \cup {[ValidItem EXCEPT !.monetaryAccountId = id] : id \in {0, -1}}
    \cup {[ValidItem EXCEPT !.recipientType = r[1], !.recipientValue = r[2]] :
            r \in { <<"iban", "">>, <<"iban", " ">>, <<"email", "a@b.c">>,
                    <<"email", "">>, <<"email", "a@b">>, <<"phone", "+31">>,
                    <<"phone", " ">>, <<"other", "NL00">> }}

CpInputs ==
  [items : UNION {[1..n -> CpItemKinds] : n \in 0..MaxCpItems},
   continueOnFail : BOOLEAN]

NoCpIn == [items |-> <<>>, continueOnFail |-> FALSE]

\* The checks of lines 190-255 on one item, in their order: the message
\* class of the NodeOperationError that is thrown, "" if none is.
validationError(item) ==
  IF ~amountRegex(item.amount) THEN "InvalidAmount"
  ELSE IF item.monetaryAccountId <= 0 THEN "InvalidAccount"
  ELSE IF item.recipientType \notin {"iban", "email", "phone"}
    THEN "UnknownRecipientType"
  ELSE IF isBlank(item.recipientValue) THEN "RecipientRequired"
  ELSE IF item.recipientType = "email" /\ ~emailRegex(item.recipientValue)
    THEN "InvalidEmail"
  ELSE ""

\* what ensureBunqSession gives the node: a session with token and user id,
\* one without user id, or an error
SessionOutcomes == {"session", "noUserId", "error"}

\* what client.request gives the node: a response with an Id, a Payment or
\* a DraftPayment entry, a response without any, or an error
PostOutcomes == {"Id", "Payment", "DraftPayment", "empty", "error"}

\* the endpoint of the payment-creation POST
endpointOf(item) ==
  IF item.paymentType = "draft" THEN "draft-payment" ELSE "payment"

\* the catch block with the loop left after the error item is pushed: a
\* variant "a failure does not stop the following items" must tell from the
\* code's
CpCatchStopping ==
  IF cpIn.continueOnFail
  THEN /\ cpReturn' = Append(cpReturn, [success |-> FALSE, pairedItem |-> cpIndex])
       /\ cpPc' = "returned"
       /\ UNCHANGED cpIndex
  ELSE /\ cpPc' = "thrown"
       /\ UNCHANGED <<cpReturn, cpIndex>>

\* The catch block of the loop body (lines 361-375): with continueOnFail an
\* error item paired with the item is pushed and the loop goes on, without
\* it the error leaves execute.
CpCatch ==
  IF cpIn.continueOnFail
  THEN /\ cpReturn' = Append(cpReturn, [success |-> FALSE, pairedItem |-> cpIndex])
       /\ cpIndex' = cpIndex + 1
       /\ cpPc' = "item"
  ELSE /\ cpPc' = "thrown"
       /\ UNCHANGED <<cpReturn, cpIndex>>

\* no CreatePayment execution is under way
CpIdle ==
  /\ cpIn = NoCpIn
  /\ cpIndex = 0
  /\ cpPc = "returned"
  /\ cpReturn = <<>>
  /\ cpSessions = <<>>
  /\ cpPosts = <<>>

\* execute has read its input items
CpInit ==
  /\ cpIn \in CpInputs
  /\ cpIndex = 0
  /\ cpPc = "item"
  /\ cpReturn = <<>>
  /\ cpSessions = <<>>
  /\ cpPosts = <<>>

\* The loop body up to its first await: the parameters of the item are read
\* and checked, and ensureBunqSession is called if they pass.
CpValidate ==
  /\ cpPc = "item"
  /\ cpIndex < Len(cpIn.items)
  /\ IF validationError(cpIn.items[cpIndex + 1]) # ""
     THEN CpCatch /\ UNCHANGED cpSessions
     ELSE /\ cpSessions' = Append(cpSessions, cpIndex)
          /\ cpPc' = "session"
          /\ UNCHANGED <<cpReturn, cpIndex>>
  /\ UNCHANGED <<cpIn, cpPosts, rlVars, seVars, exVars, erVars, pyVars, rqVars, heVars, btVars>>

\* ensureBunqSession ends: with a complete session the body is built and
\* the POST is handed to client.request; otherwise the catch block runs.
CpSession(outcome) ==
  /\ cpPc = "session"
  /\ IF outcome = "session"
     THEN /\ cpPosts' = Append(cpPosts,
                [item |-> cpIndex, endpoint |-> endpointOf(cpIn.items[cpIndex + 1])])
          /\ cpPc' = "post"
          /\ UNCHANGED <<cpReturn, cpIndex>>
     ELSE CpCatch /\ UNCHANGED cpPosts
  /\ UNCHANGED <<cpIn, cpSessions, rlVars, seVars, exVars, erVars, pyVars, rqVars, heVars, btVars>>

\* client.request ends: a payment result is pushed as a success item paired
\* with the item, and the loop goes on; a response without one, or an
\* error, reaches the catch block.
CpResponse(outcome) ==
  /\ cpPc = "post"
  /\ IF outcome \in {"Id", "Payment", "DraftPayment"}
     THEN /\ cpReturn' = Append(cpReturn, [success |-> TRUE, pairedItem |-> cpIndex])
          /\ cpIndex' = cpIndex + 1
          /\ cpPc' = "item"
     ELSE CpCatch
  /\ UNCHANGED <<cpIn, cpSessions, cpPosts, rlVars, seVars, exVars, erVars, pyVars,
                 rqVars, heVars, btVars>>

\* the loop has run through all items: prepareOutputData(returnData)
CpReturns ==
  /\ cpPc = "item"
  /\ cpIndex = Len(cpIn.items)
  /\ cpIn # NoCpIn
  /\ cpPc' = "returned"
  /\ UNCHANGED <<cpIn, cpIndex, cpReturn, cpSessions, cpPosts, rlVars, seVars, exVars,
                 erVars, pyVars, rqVars, heVars, btVars>>

CpNext ==
  \/ CpValidate
  \/ \E o \in SessionOutcomes : CpSession(o)
  \/ \E o \in PostOutcomes : CpResponse(o)
  \/ CpReturns

\* ------------------------------------------------------------------------
\* BunqTrigger: webhookMethods.default.delete
\* ------------------------------------------------------------------------
MaxFilters == 2
MaxResponseItems == 2

WebhookUrls == {"u1", "u2"}

\* a notification filter: category and notification_target
Filters == [category : {"MUTATION", "PAYMENT"}, notification_target : WebhookUrls]

FilterLists == UNION {[1..n -> Filters] : n \in 0..MaxFilters}

\* An entry of response.Response: a NotificationFilterUrl with its
\* notification_filters (hasFilters FALSE if the field is missing), or an
\* entry of another kind.
ResponseItems ==
  {[kind |-> "NotificationFilterUrl", hasFilters |-> TRUE, filters |-> f] :
     f \in FilterLists}
    \cup {[kind |-> "NotificationFilterUrl", hasFilters |-> FALSE, filters |-> <<>>],
          [kind |-> "Other", hasFilters |-> FALSE, filters |-> <<>>]}

\* the answers to the GET: an error, a body without a Response array, or a
\* Response array
NoBtResponse == [status |-> "none", items |-> <<>>]

GetResponses ==
  {[status |-> st, items |-> <<>>] : st \in {"error", "noArray"}}
    \cup {[status |-> "array", items |-> is] :
            is \in UNION {[1..n -> ResponseItems] : n \in 0..MaxResponseItems}}

\* the inner loop over one entry's filters: those whose notification_target
\* is not webhookUrl, in order
keepOf(filters, webhookUrl) ==
  SelectSeq(filters, LAMBDA f : f.notification_target # webhookUrl)

\* `item.NotificationFilterUrl.notification_filters || []`
filtersIn(item) ==
  IF item.kind = "NotificationFilterUrl" /\ item.hasFilters THEN item.filters
  ELSE <<>>

\* filtersToKeep with the filters kept by their category and not by their
\* target: a variant "filters of other targets are preserved" must tell from
\* the code's
RECURSIVE filtersToKeepByCategory(_, _)
filtersToKeepByCategory(items, webhookUrl) ==
  IF items = <<>> THEN <<>>
  ELSE SelectSeq(filtersIn(Head(items)), LAMBDA f : f.category # "MUTATION")
         \o filtersToKeepByCategory(Tail(items), webhookUrl)

\* filtersToKeep after the loops over response.Response
RECURSIVE filtersToKeep(_, _)
filtersToKeep(items, webhookUrl) ==
  IF items = <<>> THEN <<>>
  ELSE keepOf(filtersIn(Head(items)), webhookUrl)
         \o filtersToKeep(Tail(items), webhookUrl)

\* what the steps before the GET may end in
StartOutcomes == {"credentials", "noCredentials", "invalidEnvironment"}

\* the catch block: the error is logged and true is returned
BtCatch ==
  /\ btPc' = "ended"
  /\ btResult' = "true"

\* no delete is under way
BtIdle ==
  /\ btUrl = ""
  /\ btPc = "ended"
  /\ btResponse = NoBtResponse
  /\ btPosted = <<>>
  /\ btResult = "none"

\* delete is called for the webhook of the node
BtInit ==
  /\ btUrl \in WebhookUrls
  /\ btPc = "start"
  /\ btResponse = NoBtResponse
  /\ btPosted = <<>>
  /\ btResult = "none"

\* getCredentials and getBunqBaseUrl; then ensureBunqSession is called
BtStart(outcome) ==
  /\ btPc = "start"
  /\ IF outcome = "credentials"
     THEN btPc' = "session" /\ UNCHANGED btResult
     ELSE BtCatch
  /\ UNCHANGED <<btUrl, btResponse, btPosted, rlVars, seVars, exVars, erVars, pyVars,
                 rqVars, heVars, cpVars>>

\* ensureBunqSession ends: with a complete session the GET is sent, without
\* session token or user id true is returned, an error is caught
BtSession(outcome) ==
  /\ btPc = "session"
  /\ CASE outcome = "session" -> btPc' = "get" /\ UNCHANGED btResult
       [] outcome = "noUserId" -> btPc' = "ended" /\ btResult' = "true"
       [] OTHER -> BtCatch
  /\ UNCHANGED <<btUrl, btResponse, btPosted, rlVars, seVars, exVars, erVars, pyVars,
                 rqVars, heVars, cpVars>>

\* the GET ends: the filters to keep are collected, the payload is signed
\* (signData may throw on the private key) and posted
BtGet(response, signs) ==
  /\ btPc = "get"
  /\ btResponse' = response
  /\ IF response.status = "error" \/ ~signs
     THEN BtCatch /\ UNCHANGED btPosted
     ELSE /\ btPosted' = Append(btPosted, filtersToKeep(response.items, btUrl))
          /\ btPc' = "post"
          /\ UNCHANGED btResult
  /\ UNCHANGED <<btUrl, rlVars, seVars, exVars, erVars, pyVars, rqVars, heVars, cpVars>>

\* the POST ends, with or without an error: true is returned
BtPost(ok) ==
  /\ btPc = "post"
  /\ IF ok THEN btPc' = "ended" /\ btResult' = "true" ELSE BtCatch
  /\ UNCHANGED <<btUrl, btResponse, btPosted, rlVars, seVars, exVars, erVars, pyVars,
                 rqVars, heVars, cpVars>>

BtNext ==
  \/ \E o \in StartOutcomes : BtStart(o)
  \/ \E o \in SessionOutcomes : BtSession(o)
  \/ \E r \in GetResponses : \E signs \in BOOLEAN : BtGet(r, signs)
  \/ \E ok \in BOOLEAN : BtPost(ok)

\* ------------------------------------------------------------------------
\* Specifications
\* ------------------------------------------------------------------------
\* nothing but the part under study is running
\* the node-level parts at rest
NodesIdle == RqIdle /\ HeIdle /\ CpIdle /\ BtIdle

OthersIdle == ErIdle /\ PyIdle /\ NodesIdle

InitRL == RLInit /\ SeIdle /\ ExIdle /\ OthersIdle

SpecRL == InitRL /\ [][RLNext]_vars

\* timers fire and the event loop runs what is ready: the clock goes on, a
\* sleep() whose deadline has passed resolves, and a continuation queued on
\* the microtask queue is run
SpecRLFair ==
  /\ SpecRL
  /\ WF_vars(Tick)
  /\ WF_vars(Resume)
  /\ \A c \in Callers : WF_vars(TimerFire(c))

InitSession == RLIdle /\ SeInit /\ ExIdle /\ OthersIdle

SpecSession == InitSession /\ [][SeNext]_vars

InitExpiry == RLAtRest /\ SeIdle /\ ExInit /\ OthersIdle

SpecExpiry == InitExpiry /\ [][ExNext]_vars

InitEnrich == RLIdle /\ SeIdle /\ ExIdle /\ ErInit /\ PyIdle /\ NodesIdle

SpecEnrich == InitEnrich /\ [][ErNext]_vars

InitPayments == RLIdle /\ SeIdle /\ ExIdle /\ ErIdle /\ PyInit /\ NodesIdle

SpecPayments == InitPayments /\ [][PyNext]_vars

\* the event loop runs a continuation that is ready: the walk is not starved
SpecPaymentsFair == SpecPayments /\ WF_vars(PyNext)

InitRequest == RLIdle /\ SeIdle /\ ExIdle /\ ErIdle /\ PyIdle /\ RqInit /\ HeIdle /\ CpIdle /\ BtIdle

SpecRequest == InitRequest /\ [][RqNext]_vars

InitHandle == RLIdle /\ SeIdle /\ ExIdle /\ ErIdle /\ PyIdle /\ RqIdle /\ HeInit /\ CpIdle /\ BtIdle

SpecHandle == InitHandle /\ [][HeNext]_vars

InitCreate == RLIdle /\ SeIdle /\ ExIdle /\ ErIdle /\ PyIdle /\ RqIdle /\ HeIdle /\ CpInit /\ BtIdle

SpecCreate == InitCreate /\ [][CpNext]_vars

InitDelete == RLIdle /\ SeIdle /\ ExIdle /\ ErIdle /\ PyIdle /\ RqIdle /\ HeIdle /\ CpIdle /\ BtInit

SpecDelete == InitDelete /\ [][BtNext]_vars

\* ------------------------------------------------------------------------
\* Properties of the rate limiter
\* ------------------------------------------------------------------------
\* admissions logged for key k at a time in the half-open span [from, from+len)
AdmittedIn(k, from, len) ==
  Cardinality({i \in DOMAIN admitLog[k] :
                 admitLog[k][i] >= from /\ admitLog[k][i] < from + len})

\* maxRequests+1 consecutive admissions of key k span at least windowMs
SpacedOut(k) ==
  LET n == rateLimitOf(k).maxRequests + 1
  IN  Len(admitLog[k]) = n =>
        admitLog[k][n] - admitLog[k][1] >= rateLimitOf(k).windowMs

\* C1: for every credential and every method class (GET, POST, PUT), any
\* span of windowMs holds at most maxRequests admitted calls, i.e. every
\* maxRequests+1 consecutive admissions are at least windowMs apart.
C1_SlidingWindowCap ==
  \A k \in Keys : k[2] \in MethodClasses => SpacedOut(k)

\* C2: the check-wait-increment sequence is atomic per key: at most
\* maxRequests calls are admitted between the stored window start and
\* windowMs later, also when several callers were suspended on the key.
C2_AtomicPerKey ==
  \A k \in Keys :
    rateLimitState[k] # NoState =>
      AdmittedIn(k, rateLimitState[k].windowStart, rateLimitOf(k).windowMs)
        <= rateLimitOf(k).maxRequests

\* C4: for one credential at most one session-server call is admitted in any
\* span of 30000 ms: two consecutive admissions are at least 30000 ms apart.
C4_SessionServerCap ==
  \A k \in Keys : k[2] = "SESSION_SERVER" => SpacedOut(k)

\* caller c is suspended inside enforceRateLimit
Suspended(p, c) == p[c] \in {"sleeping", "chained", "ready"}

\* the window of request r, by the API key itself
OwnWindow(r) == rateLimitState[<<<<"h", r.apiKey>>, classOf(r.method, r.url)>>]

\* A step changes the window of key k only if the call that ran has k's
\* credential.
OwnWindowsOnly ==
  \A k \in Keys :
    rateLimitState'[k] # rateLimitState[k] => k[1] = <<"h", lastCall'.apiKey>>

\* A call that is suspended on entry found the window of its own credential
\* full or waited on by another call.
DelayedByOwnQuota ==
  \A c \in Callers :
    (pc[c] = "idle" /\ Suspended(pc', c)) =>
      LET r == callReq'[c]
      IN  \/ OwnWindow(r).count >= RATE_LIMITS[classOf(r.method, r.url)].maxRequests
          \/ OwnWindow(r).pendingPromise # 0

\* C11: windows of different credentials are independent: a call made with
\* credential A never changes the windowStart or count of a window of
\* credential B and is never delayed because B's quota is exhausted.
C11_CredentialsIndependent == [][OwnWindowsOnly /\ DelayedByOwnQuota]_vars

\* a call with k2 was admitted at once while the quota of k1 was used up
C11_Witness ==
  /\ rateLimitState[<<<<"h", "k1">>, "GET">>].count = RATE_LIMITS.GET.maxRequests
  /\ rateLimitState[<<<<"h", "k2">>, "GET">>].count >= 1
  /\ lastCall = [apiKey |-> "k2", waited |-> FALSE]
  /\ lastResult = "admitted"
  /\ now = 0

\* A call that ends in the step in which it entered raises an error only
\* if its credential has no API key.
ErrorOnlyWithoutKey ==
  (calls' = calls + 1 /\ pc' = pc /\ lastResult' = "error") =>
    lastCall'.apiKey = NoApiKey

\* A call that leaves its suspension for good returns normally: it is
\* admitted under its key.
WaitEndsInAdmission ==
  \A c \in Callers :
    (Suspended(pc, c) /\ pc'[c] = "idle") =>
      LET k == keyOf(callReq[c].apiKey, callReq[c].method, callReq[c].url)
      IN  /\ lastResult' = "admitted"
          /\ rateLimitState'[k].count >= 1

\* C12: enforceRateLimit never fails because a quota is exhausted: a call
\* that finds count at maxRequests waits and then returns normally, and the
\* only error is raised for a credential without an API key.
C12_NoRateLimitError == [][ErrorOnlyWithoutKey /\ WaitEndsInAdmission]_vars

\* a call that waited for its window has returned normally
C12_Witness ==
  /\ lastResult = "admitted"
  /\ lastCall.waited
  /\ \A c \in Callers : pc[c] = "idle"

\* In a step that admits a call for key k, no call for k that entered
\* earlier stays suspended.
AdmitsInOrder(k) ==
  admitLog'[k] # admitLog[k] =>
    LET woken   == {c \in Callers : Suspended(pc, c) /\ pc'[c] = "idle"}
        entered == IF woken = {} THEN now
                   ELSE callNow[CHOOSE c \in woken : TRUE]
    IN  \A d \in Callers :
          (Suspended(pc', d)
             /\ keyOf(callReq'[d].apiKey, callReq'[d].method, callReq'[d].url) = k)
            => callNow'[d] >= entered

\* C15: every request BunqHttpClient.request hands to helpers.httpRequest is
\* preceded by a completed enforceRateLimit call for it: no request is sent
\* more often than its acquisitions have returned.
C15_AcquireBeforeSend ==
  \A r \in AllReqs : sent[r] <= acquired[r]

\* C13: within one window key calls are admitted in the order in which they
\* entered enforceRateLimit, also when they had to wait.
C13_Fifo == [][\A k \in Keys : AdmitsInOrder(k)]_vars

\* ------------------------------------------------------------------------
\* Properties of the session lifecycle
\* ------------------------------------------------------------------------
\* the handshake step k is among the requests rs
Has(rs, k) == \E i \in DOMAIN rs : rs[i] = k

\* Calls c and d are two ensureBunqSession(false) calls with the same
\* credentials that both began on an expired stored session, d while c was
\* awaiting a response and no other call was.
RefreshTogether(c, d) ==
  /\ c # d
  /\ sover[d] = {c}
  /\ sover[c] = {}
  /\ ~sforce[c] /\ ~sforce[d]
  /\ scfg[c] = scfg[d]
  /\ sstart[c] = "expired" /\ sstart[d] = "expired"

\* C3: two ensureBunqSession(false) calls for the same credential that
\* interleave while the cached session is expired send one session-creation
\* request between them, not one each.
C3_SingleRefresh ==
  \A c, d \in Calls :
    RefreshTogether(c, d) => ~(Has(sreqs[c], 3) /\ Has(sreqs[d], 3))

\* C5: a successful ensureBunqSession(true) has sent the installation, the
\* device registration and the session creation request, in either
\* authentication mode and whatever the record held before.
C5_ForceRunsAllSteps ==
  \A c \in Calls :
    (spc[c] = "done" /\ sforce[c]) => sreqs[c] = <<1, 2, 3>>

\* the output of handshake step k is in record rec and, for the session
\* step, the session is not past half of its timeout
CachedOutput(rec, k) ==
  CASE k = 1 -> rec.installationToken # NoTok /\ rec.serverPublicKey # NoTok
    [] k = 2 -> rec.deviceServerId # NoTok
    [] k = 3 -> /\ rec.sessionToken # NoTok
                /\ rec.sessionCreatedAt # 0
                /\ 2 * (now - rec.sessionCreatedAt) <=
                     1000 * (IF rec.sessionTimeout = 0 THEN 604800
                             ELSE rec.sessionTimeout)

\* In a step of call c, begun without forceRecreate, that sends a request or
\* returns: the steps it passes over have their output in the record, and
\* the step it sends the request of has not.
SkipsIffCached(c) ==
  (spc'[c] # spc[c] /\ spc'[c] \in {"await", "done"} /\ ~sforce'[c]) =>
    LET rec   == heap'[sobj'[c]]
        first == IF spc[c] = "new" THEN 1 ELSE sreqs[c][Len(sreqs[c])] + 1
        asked  == IF spc'[c] = "await" THEN sreqs'[c][Len(sreqs'[c])] ELSE 4
    IN  \A k \in 1..3 :
          /\ (first <= k /\ k < asked) => CachedOutput(rec, k)
          /\ k = asked => ~CachedOutput(rec, k)

\* C6: ensureBunqSession(false) skips a handshake step if and only if the
\* step's output is in the cached record and, for the session step, the
\* cached session is not expired under the 50%-of-timeout rule.
C6_SkipIffCached == [][\A c \in Calls : SkipsIffCached(c)]_vars

\* Call d is an ensureBunqSession(false) that began right after call c, an
\* ensureBunqSession(false) with the same credentials, returned: no time
\* passed and no other caller acted in between.
RightAfter(c, d) ==
  /\ sprev[d] = c
  /\ ~sforce[c] /\ ~sforce[d]
  /\ scfg[c] = scfg[d]

C9_NoFallback ==
  \A c \in Calls :
    (spc[c] # "new" /\ scfg[c].oauthConfigured /\ scfg[c].accessToken = "") =>
      /\ spc[c] = "failed"
      /\ sreqs[c] = <<>>
      /\ sresult[c].kind \in {"OAuthTokenRequired", "NoCredentials", "InvalidEnvironment"}

\* C10: the session token a call returns was created with the secret of
\* that call's own credential.
C10_OwnCredential ==
  \A c \in Calls :
    spc[c] = "done" => sresult[c].sessionToken.secret = secretOf(scfg[c], smode[c])

\* the requests rs name each handshake step at most once, in handshake order
NoRepeat(rs) == \A i, j \in DOMAIN rs : i < j => rs[i] < rs[j]

\* After a step: call c has requested no handshake endpoint twice; if it
\* failed after a request, it raised the error of that request; and a
\* failed call requests nothing more.
FailsHard(c) ==
  /\ NoRepeat(sreqs'[c])
  /\ (spc'[c] = "failed" /\ sreqs'[c] # <<>>) =>
       /\ sresult'[c].status = "error"
       /\ sresult'[c].kind \in {"ApiCallFailed", "MalformedResponse"}
  /\ spc[c] = "failed" => (spc'[c] = "failed" /\ sreqs'[c] = sreqs[c])
  /\ (spc[c] = "await" /\ spc'[c] = "failed") => sreqs'[c] = sreqs[c]

Returns(c) == spc[c] # "done" /\ spc'[c] = "done"

\* the tokens and ids the record of call c holds
tokensOf(rec) ==
  {rec.installationToken, rec.deviceServerId, rec.sessionToken} \ {NoTok}

\* C17: whenever ensureBunqSession returns, every token of the record was
\* obtained from the host of the environment it returns, also after the
\* environment of the credential has changed between calls.
C17_EnvironmentsNotMixed ==
  [][\A c \in Calls :
       Returns(c) =>
         \A t \in tokensOf(heap'[sobj'[c]]) :
           t.environment = sresult'[c].environment]_vars

\* C18: a call that returns without error returns a session token, a
\* non-empty user id and the environment of its credential; no record holds
\* a session token without a user id.
C18_CompleteDescriptor ==
  /\ \A c \in Calls :
       spc[c] = "done" =>
         /\ sresult[c].sessionToken # NoTok
         /\ sresult[c].userId # ""
         /\ sresult[c].environment = scfg[c].environment
  /\ \A o \in DOMAIN heap :
       heap[o].sessionToken # NoTok => heap[o].userId # ""

\* call c takes this step
StepOf(c) == spc'[c] # spc[c] \/ sreqs'[c] # sreqs[c]

\* call c began without forceRecreate on a record with installation, device
\* id and an expired session
RenewsExpired(c) ==
  sstart[c] = "expired" /\ ~sforce[c] /\ 2 \in stepsOf(smode[c])

\* After a step: a call that began on an expired session has requested
\* nothing but the session creation, and its step left the installation
\* token, the server public key and the device id of its record as they were.
RenewsSessionOnly(c) ==
  RenewsExpired(c)' =>
    /\ sreqs'[c] = <<3>>
    /\ StepOf(c) =>
         LET o == sobj'[c]
         IN  /\ heap'[o].installationToken = heap[o].installationToken
             /\ heap'[o].serverPublicKey = heap[o].serverPublicKey
             /\ heap'[o].deviceServerId = heap[o].deviceServerId
             /\ heap'[o].deviceServerId # NoTok

\* C22: with the session expired and installation token and device id
\* cached, ensureBunqSession(false) requests only the session creation and
\* leaves installationToken, serverPublicKey and deviceServerId unchanged.
C22_RenewsSessionOnly == [][\A c \in Calls : RenewsSessionOnly(c)]_vars

\* such a call has returned with its new session
C22_Witness ==
  \E c \in Calls :
    /\ spc[c] = "done"
    /\ sstart[c] = "expired" /\ ~sforce[c] /\ smode[c] = "api"
    /\ sreqs[c] = <<3>>
    /\ sresult[c].sessionToken.call = c

\* call c sends the request of handshake step k in this step
Sends(c, k) ==
  sreqs'[c] # sreqs[c] /\ sreqs'[c][Len(sreqs'[c])] = k

\* after the step, installation i has succeeded: some record holds its token
Installed(i) ==
  i # 0 /\ \E o \in Calls : heap'[o].installationToken.call = i

\* after the step, a device registration has succeeded for installation i
DeviceRegistered(i) ==
  \E o \in Calls :
    /\ heap'[o].installationToken.call = i
    /\ heap'[o].deviceServerId # NoTok
    /\ heap'[o].deviceServerId.inst = i

\* the handshake order of the requests call c sends
InOrder(c) ==
  /\ Sends(c, 2) => Installed(sarg'[c])
  /\ Sends(c, 3) => Installed(sarg'[c]) /\ DeviceRegistered(sarg'[c])

\* C25: a device registration is requested only with the token of an
\* installation that has succeeded, and a session creation only with an
\* installation token for which a device registration has succeeded, in
\* both authentication modes and with calls interleaved on one record.
C25_HandshakeOrder == [][\A c \in Calls : InOrder(c)]_vars

\* the last element of a non-empty sequence
Last(q) == q[Len(q)]

\* what step k of call c stored in record rec is still there
KeepsOutput(rec, c, k) ==
  CASE k = 1 -> rec.installationToken.call = c /\ rec.serverPublicKey.call = c
    [] k = 2 -> rec.deviceServerId.call = c
    [] k = 3 -> rec.sessionToken.call = c

\* call c ran with no other call under way
RanAlone(c) ==
  /\ sover[c] = {}
  /\ \A d \in Calls : d > c => spc[d] = "new"

\* The step in which a request of call c fails changes no record and not
\* the static data; if the call ran alone, the stored record is the one it
\* worked on and holds the outputs of its earlier steps.
FailureKeepsRecord(c) ==
  (spc[c] = "await" /\ spc'[c] = "failed" /\ ~sforce[c]) =>
    /\ heap' = heap
    /\ staticData' = staticData
    /\ (RanAlone(c) /\ Len(sreqs[c]) > 1) =>
         /\ staticData'[staticKey(smode[c])] = sobj[c]
         /\ \A j \in 1..(Len(sreqs[c]) - 1) :
              KeepsOutput(heap'[sobj[c]], c, sreqs[c][j])

\* call d is the call that follows the failed call c: same credentials, no
\* forceRecreate, begun after c failed, neither overlapping another call
Follows(c, d) ==
  /\ d = c + 1
  /\ spc[c] = "failed" /\ sreqs[c] # <<>> /\ ~sforce[c] /\ sover[c] = {}
  /\ spc[d] # "new" /\ ~sforce[d] /\ sover[d] = {}
  /\ scfg[d] = scfg[c]

\* the call that follows a failed call begins with the step that failed
ResumesAtFailedStep ==
  \A c, d \in Calls :
    Follows(c, d) => sreqs[d] # <<>> /\ sreqs[d][1] = Last(sreqs[c])

Begins(c) == spc[c] = "new" /\ spc'[c] # "new"

\* the record stored for the flow of call c, after the step
storedRec(c) == heap'[staticData'[staticKey(smode'[c])]]

\* A forceRecreate call that begins: with an invalid environment it fails
\* and the step changes no record; otherwise the stored record is a new and
\* empty one but for what the call itself has put in, and the first request
\* of the call comes after that.
ClearsFirst(c) ==
  (Begins(c) /\ sforce'[c]) =>
    IF ~validEnvironment(scfg'[c].environment)
    THEN /\ spc'[c] = "failed" /\ sreqs'[c] = <<>>
         /\ heap' = heap /\ staticData' = staticData
    ELSE spc'[c] = "await" =>
           /\ sreqs'[c] = <<1>>
           /\ staticData'[staticKey(smode'[c])] = c
           /\ storedRec(c) = EmptyRec

\* A forceRecreate call that fails at a handshake step, no earlier call
\* having been under way when it began: the stored record holds nothing that
\* was cached before the call.
NothingCachedLeft(c) ==
  (spc[c] = "await" /\ spc'[c] = "failed" /\ sforce[c] /\ sover[c] = {}) =>
    /\ staticData'[staticKey(smode'[c])] # 0
    /\ \A t \in tokensOf(storedRec(c)) : t.call >= c

Overtaken(b, c) ==
  /\ sforce[c] /\ spc[c] = "done"
  /\ b \in sover[c] /\ ~sforce[b] /\ smode[b] = smode[c]
  /\ \A d \in Calls : d > c => spc[d] = "new"

\* when the overtaken call b stores its session, the stored record is still
\* the one of the forceRecreate call c, with the tokens c obtained
NotUndone(b, c) ==
  (Overtaken(b, c) /\ spc[b] = "await" /\ spc'[b] = "done") =>
    /\ staticData'[staticKey(smode[c])] = sobj[c]
    /\ storedRec(c).installationToken.call = c
    /\ storedRec(c).sessionToken.call = c

\* C30: a completed ensureBunqSession(true) is not undone by a call begun
\* before its wipe: when that call finishes its session creation, the stored
\* record still holds the tokens of the forceRecreate call.
C30_ForceNotUndone == [][\A b, c \in Calls : NotUndone(b, c)]_vars

\* the record the static data holds under key (an empty one if none is
\* stored), in heap h and static data sd
recordAt(h, sd, key) == IF sd[key] = 0 THEN EmptyRec ELSE h[sd[key]]

\* no call made so far asked for forceRecreate, the step's own included
NoForceYet == \A c \in Calls : ~sforce'[c]

\* the installation token and the device id stored under key are left as
\* they are by the step once they are set, and a stored session token was
\* created with the stored installation token
KeepsInstallation(key) ==
  LET old == recordAt(heap, staticData, key)
      new == recordAt(heap', staticData', key)
  IN  /\ old.installationToken # NoTok =>
            new.installationToken = old.installationToken
      /\ old.deviceServerId # NoTok => new.deviceServerId = old.deviceServerId
      /\ new.sessionToken # NoTok =>
            new.sessionToken.inst = new.installationToken.call

\* C31: without forceRecreate the stored installationToken and
\* deviceServerId of a record never change once set, whatever the sequence
\* or interleaving of ensureBunqSession(false) calls, so the stored session
\* token was created with the stored installation token.
C31_InstallationStable ==
  [][NoForceYet =>
       \A key \in {"bunqSession", "bunqSessionOAuth"} : KeepsInstallation(key)]_vars

\* ------------------------------------------------------------------------
\* Further properties of the rate limiter
\* ------------------------------------------------------------------------
\* The suspensions of one call: it may await the pending wait of another
\* caller once, and only before its own sleep; it sleeps at most once; and
\* when its own sleep ends it is admitted whatever the window holds.
OneWaitOneSleep(c) ==
  /\ pc[c] = "chained" => pc'[c] \in {"chained", "ready"}
  /\ pc[c] = "ready" => pc'[c] \in {"ready", "sleeping", "idle"}
  /\ pc[c] = "sleeping" => pc'[c] \in {"sleeping", "idle"}
  /\ pc[c] = "sleeping" /\ pc'[c] = "idle" =>
       /\ lastResult' = "admitted"
       /\ lastCall' = [apiKey |-> callReq[c].apiKey, waited |-> TRUE]

\* C21: every enforceRateLimit call eventually returns, however many
\* callers interleave on its key: it awaits at most one pending wait of
\* another caller and then at most one sleep of its own, and is admitted
\* unconditionally after its own sleep.
C21_EveryCallReturns ==
  /\ [][\A c \in Callers : OneWaitOneSleep(c)]_vars
  /\ \A c \in Callers : (pc[c] # "idle") ~> (pc[c] = "idle")

\* the last call of a run has returned after a suspension while another
\* caller is still asleep
C21_Witness ==
  \E c \in Callers :
    /\ pc[c] = "idle"
    /\ lastResult = "admitted"
    /\ lastCall.waited
    /\ \E d \in Callers \ {c} : pc[d] = "sleeping" /\ wakeAt[d] > now
    /\ calls = MaxCalls

\* C23: in every reachable state the stored count of every window key is
\* between 0 and the maxRequests of its class, under any interleaving of
\* enforceRateLimit calls.
C23_CountWithinQuota ==
  \A k \in Keys :
    /\ rateLimitState[k].count >= 0
    /\ rateLimitState[k].count <= rateLimitOf(k).maxRequests

\* a full window, set up by a caller after its sleep and filled again, with
\* one caller asleep on it and another chained behind
C23_Witness ==
  \E k \in Keys : \E c, d \in Callers :
    /\ rateLimitState[k].count = rateLimitOf(k).maxRequests
    /\ rateLimitState[k].pendingPromise = c
    /\ pc[c] = "sleeping" /\ pc[d] = "chained"
    /\ Len(admitLog[k]) > rateLimitOf(k).maxRequests

\* this step is the entry of an enforceRateLimit call whose credentials
\* have no API key
EntersWithoutKey ==
  client = "rateLimited" /\ calls' = calls + 1 /\ lastCall'.apiKey = NoApiKey

\* C24: enforceRateLimit called with credentials without an API key fails
\* with an error, for every method, and no window record is created or
\* changed by the call.
C24_NoKeyFailsFirst ==
  [][EntersWithoutKey =>
       /\ lastResult' = "error"
       /\ rateLimitState' = rateLimitState
       /\ pc' = pc /\ chain' = chain /\ acquired' = acquired /\ sent' = sent]_vars

\* a call without a key has failed while a window of the process is full
C24_Witness ==
  /\ lastResult = "error"
  /\ lastCall.apiKey = NoApiKey
  /\ \E k \in Keys : rateLimitState[k].count = rateLimitOf(k).maxRequests

\* the enforceRateLimit call for request r returns in this step
ReturnsFor(r) == acquired'[r] # acquired[r]

\* the window a request is to be counted in: the session-server window of
\* its credential when its path ends in session-server, else the window of
\* its method
windowOf(r) ==
  <<credentialHash(r.apiKey),
    IF r.url.segs[Len(r.url.segs)] = "session-server" THEN "SESSION_SERVER"
    ELSE toUpperCase(r.method)>>

\* the step in which a throttled call returns counts it in its own window
\* (the count there is at least 1 afterwards) and leaves every other window
\* as it was
OwnWindowOnly(r) ==
  ReturnsFor(r) /\ toUpperCase(r.method) \in MethodClasses =>
    /\ rateLimitState'[windowOf(r)].count >= 1
    /\ \A k \in Keys \ {windowOf(r)} : rateLimitState'[k] = rateLimitState[k]

\* C26: the session-server class is separate from the POST class: an
\* admitted call to the session-server path changes only the session-server
\* window of its credential, an admitted POST to another path leaves the
\* session-server window unchanged.
C26_SessionServerSeparate == [][\A r \in AllReqs : OwnWindowOnly(r)]_vars

\* the session-server window and the POST window of one credential are both
\* in use, each with its own count
C26_Witness ==
  /\ rateLimitState[<<credentialHash("k1"), "SESSION_SERVER">>].count = 1
  /\ rateLimitState[<<credentialHash("k1"), "POST">>].count >= 2
  /\ \E c \in Callers : pc[c] = "sleeping" /\ isSessionServer(callReq[c].url)

\* the requests with a key whose method is none of GET, POST and PUT and
\* whose path is not the session-server endpoint
OtherMethodReqs ==
  {r \in AllReqs :
     /\ r.apiKey # NoApiKey
     /\ toUpperCase(r.method) \notin MethodClasses
     /\ r.url.segs[Len(r.url.segs)] # "session-server"}

\* a call for request r returns in the step in which it is made, without a
\* suspension, and the step leaves every window record and every suspended
\* caller as they were; no caller is ever suspended with r
ReturnsAtOnce(r) ==
  /\ ReturnsFor(r) =>
       /\ calls' = calls + 1
       /\ lastResult' = "unthrottled"
       /\ ~lastCall'.waited
       /\ rateLimitState' = rateLimitState
       /\ pc' = pc /\ chain' = chain /\ wakeAt' = wakeAt
  /\ \A c \in Callers : callReq'[c] # r

\* C27: for a method other than GET, POST or PUT on a path that is not the
\* session-server endpoint, enforceRateLimit returns without waiting and
\* without creating or changing a window record, even when the windows of
\* the credential are full.
C27_OtherMethodsPass == [][\A r \in OtherMethodReqs : ReturnsAtOnce(r)]_vars

\* a DELETE has passed while the PUT window of its credential is full and a
\* caller sleeps on it
C27_Witness ==
  /\ lastResult = "unthrottled"
  /\ acquired[Req("k1", "DELETE", UrlPayment)] >= 1
  /\ rateLimitState[<<credentialHash("k1"), "PUT">>].count = RATE_LIMITS.PUT.maxRequests
  /\ \E c \in Callers : pc[c] = "sleeping"

\* caller c starts its sleep in this step (line 170-172)
StartsSleep(c) == pc[c] # "sleeping" /\ pc'[c] = "sleeping"

\* the time the sleep that caller c starts in this step lasts: the timer is
\* set at the present time for waitMs
sleepMs(c) == wakeAt'[c] - now

\* the window length of the class caller c's request falls in
windowMsOf(c) ==
  rateLimitOf(keyOf(callReq'[c].apiKey, callReq'[c].method, callReq'[c].url)).windowMs

\* C32: the time a single enforceRateLimit call sleeps is greater than 0 and
\* at most windowMs of its class, also for a call that first waited for
\* another caller's pending wait.
C32_SleepWithinWindow ==
  [][\A c \in Callers :
       StartsSleep(c) => sleepMs(c) > 0 /\ sleepMs(c) <= windowMsOf(c)]_vars

\* request req is made in a context whose only credential is an OAuth one
\* with a usable access token
OAuthOnly(req) == req.accessToken # "" /\ req.apiKey = NoApiKey

\* C33: the rate limiter resolves a credential identity for the
\* authentication mode in use: a request made through BunqHttpClient with an
\* OAuth credential that has a usable access token and no API-key credential
\* is not rejected by enforceRateLimit for a missing API key; it returns or
\* waits as a throttled request does.
C33_OAuthIdentityResolved ==
  [][\A c \in Callers : \A req \in scope :
       (OAuthOnly(req) /\ Enter(c, req)) =>
         /\ lastResult' # "error"
         /\ pc'[c] # "idle" \/ sent'[req] = sent[req] + 1]_vars

\* ------------------------------------------------------------------------
\* Properties of the failure path of BunqHttpClient.request
\* ------------------------------------------------------------------------
\* the thrown value carries a response
carriesResponse(e) == e.kind \in ErrKinds /\ e.response = "present"

\* the response details with the data as given or, when the data does not
\* stringify, with a placeholder in its place
DetailsOf(e) ==
  {errorDetails(e, d) :
     d \in IF stringifies(e.data) THEN {e.data} ELSE {"[Complex Object]"}}

\* the message the enriched error is to carry: the original message (or the
\* default text when it is empty) followed by the response details
EnrichedMessages(e) ==
  {m \o <<DetailsHeader, d>> :
     m \in IF e.message # <<>> THEN {e.message}
           ELSE {e.message, <<"API request failed">>},
     d \in DetailsOf(e)}

\* C16: when the HTTP call fails, request rethrows the value it caught; with
\* a response its message is the original message followed by the response
\* details, data that does not stringify appearing as a placeholder; without
\* a response the value is rethrown unchanged.
C16_RethrowsEnriched ==
  erOut # NoOutcome =>
    /\ erOut.thrown = "same"
    /\ carriesResponse(erIn) => erOut.message \in EnrichedMessages(erIn)
    /\ ~carriesResponse(erIn) => erOut.message = erIn.message

\* ------------------------------------------------------------------------
\* Properties of the Payments page walk
\* ------------------------------------------------------------------------
Range(s) == {s[i] : i \in DOMAIN s}

\* no element occurs twice in s
Distinct(s) == \A i, j \in DOMAIN s : i < j => s[i] # s[j]

\* this step is a turn of the loop in which the request was answered
Fetched == requested' # requested /\ pyStatus' = "walking"

\* the limit is reached by the payments collected after the step
limitReached == pyIn.limit > 0 /\ Len(allPayments') >= pyIn.limit

\* the scan of page p came upon a payment older than the date cutoff
sawOlder(p) ==
  /\ pyIn.lastDays
  /\ \E i \in DOMAIN pyIn.pages[p] :
       /\ pyIn.pages[p][i] = "old"
       /\ \A j \in 1..(i - 1) : <<p, j>> \in Range(allPayments')
                                 \/ pyIn.pages[p][j] = "other"

\* the loop ends with the turn in which a page has no older_url, the limit
\* is reached or an older payment is seen, and with no other turn; once it
\* has ended nothing more is requested
StopsAtOnce ==
  /\ Fetched =>
       (shouldContinue' = FALSE <=>
          \/ olderUrl(pyIn, nextUrl.page) = NoUrl
          \/ limitReached
          \/ sawOlder(nextUrl.page))
  /\ ~shouldContinue => requested' = requested

\* C19: the page walk stops as soon as a page has no older_url, the limit is
\* reached or a payment older than the date cutoff is seen; it never
\* requests the same URL twice; and it terminates.
C19_WalkTerminates ==
  /\ [][StopsAtOnce]_vars
  /\ []Distinct(requested)
  /\ <>(pyStatus # "walking")

\* a walk that ended on its limit while the page still offered an older_url
C19_Witness ==
  /\ pyStatus = "returned"
  /\ pyIn.limit > 0
  /\ Len(allPayments) = pyIn.limit
  /\ Len(requested) < Len(pyIn.pages)

\* the first n elements of s, all of s when it has fewer
Take(s, n) == SubSeq(s, 1, IF Len(s) < n THEN Len(s) ELSE n)

\* the payments of the pages walked, in the order the API returned them
walkedPayments == paymentsFrom(SubSeq(pyIn.pages, 1, Len(requested)), 1, 1)

\* s up to, and without, its first payment older than the date cutoff
RECURSIVE untilOlder(_)
untilOlder(s) ==
  IF s = <<>> \/ kindOf(pyIn.pages, Head(s)) = "old" THEN <<>>
  ELSE <<Head(s)>> \o untilOlder(Tail(s))

\* the payments of the pages walked that the date cutoff lets through
eligiblePayments ==
  IF pyIn.lastDays THEN untilOlder(walkedPayments) ELSE walkedPayments

\* once the limit is reached no further page is requested
NoFetchBeyondLimit ==
  pyIn.limit > 0 /\ Len(allPayments) >= pyIn.limit => requested' = requested

\* C20 as stated: with a limit L > 0 the node returns the first L payments
\* of the pages walked and requests no page once L are collected; without a
\* limit it returns every payment of every page walked.
C20_LimitAsStated ==
  /\ [](pyStatus = "returned" =>
          returnData = IF pyIn.limit > 0 THEN Take(walkedPayments, pyIn.limit)
                       ELSE walkedPayments)
  /\ [][NoFetchBeyondLimit]_vars

\* C20: with a limit L > 0 the node returns the first L of the payments of
\* the pages walked that are not older than the date cutoff, and requests no
\* page once L are collected; without a limit it returns every such payment.
C20_LimitWithinCutoff ==
  /\ [](pyStatus = "returned" =>
          returnData = IF pyIn.limit > 0 THEN Take(eligiblePayments, pyIn.limit)
                       ELSE eligiblePayments)
  /\ [][NoFetchBeyondLimit]_vars

\* a walk cut short by its limit: more payments were on the pages walked
C20_Witness ==
  /\ pyStatus = "returned"
  /\ pyIn.limit > 0
  /\ Len(returnData) = pyIn.limit
  /\ Len(eligiblePayments) > pyIn.limit
  /\ Len(requested) = MaxPages


\* ------------------------------------------------------------------------
\* Properties of the request BunqHttpClient.request builds
\* ------------------------------------------------------------------------
\* the request has been built
Built == rqOut # NoRequest

authHeader == rqOut.headers["X-Bunq-Client-Authentication"]

signatureHeader == rqOut.headers["X-Bunq-Client-Signature"]

\* a non-empty body and a private key are present
Signable == rqIn.body # "" /\ rqIn.privateKey # ""

Handled == heOut # NoHandled

\* with continueOnFail the call returns one item per input item, the i-th
\* paired with input index i; without it the same error is thrown and
\* nothing is returned
OnePerItemOrRethrow ==
  IF heIn.continueOnFail
  THEN /\ heOut.status = "returned"
       /\ Len(heOut.returnData) = heIn.items
       /\ \A i \in 1..heIn.items : heOut.returnData[i].pairedItem = i - 1
  ELSE /\ heOut.status = "thrown"
       /\ heOut.thrown = heIn.error
       /\ heOut.returnData = <<>>

\* C35 as stated: with continueOnFail=true handleExecuteError returns
\* exactly one error item per input item, the i-th paired with input index
\* i and carrying the error message; with continueOnFail=false it rethrows
\* the same error and returns nothing.
C35_OneErrorItemEach ==
  Handled =>
    /\ OnePerItemOrRethrow
    /\ \A i \in DOMAIN heOut.returnData :
          heOut.returnData[i].error = heIn.error.message

\* C35, amended: the items carry the message of an error that is an Error
\* instance, and the text "Unknown error" for any other thrown value.
C35_OneItemEachWithFallback ==
  Handled =>
    /\ OnePerItemOrRethrow
    /\ \A i \in DOMAIN heOut.returnData :
          heOut.returnData[i].error =
            IF heIn.error.kind = "Error" THEN heIn.error.message
            ELSE <<"Unknown error">>

\* two input items, continueOnFail, an Error with a message and a response:
\* two items were returned, paired with 0 and 1, carrying the message
C35_Witness ==
  /\ heIn.continueOnFail /\ heIn.items = 2
  /\ heIn.error.kind = "Error" /\ heIn.error.message = <<"Request failed">>
  /\ heIn.error.response = "present"
  /\ heOut.status = "returned"
  /\ Len(heOut.returnData) = 2
  /\ heOut.returnData[2].pairedItem = 1
  /\ heOut.returnData[2].error = <<"Request failed">>


\* ------------------------------------------------------------------------
\* Properties of CreatePayment.execute
\* ------------------------------------------------------------------------
\* the amounts of the model that are digits with up to two decimals
TwoDecimalAmounts == { <<"1">>, <<"1", ".", "0">>, <<"1", ".", "0", "0">> }

\* the item fails validation for one of the four reasons: the amount, the
\* monetary account id, an empty recipient, an unknown recipient type
FailsValidation(item) ==
  \/ item.amount \notin TwoDecimalAmounts
  \/ item.monetaryAccountId < 1
  \/ item.recipientValue \in {"", " "}
  \/ item.recipientType \notin {"iban", "email", "phone"}

\* the input item of index i (from 0)
itemAt(i) == cpIn.items[i + 1]

\* how often index i occurs in the sequence of records or indices s
PostsFor(i) == Cardinality({k \in DOMAIN cpPosts : cpPosts[k].item = i})

\* C36: for each input item CreatePayment sends at most one payment-creation
\* POST, and sends none and starts no session handshake for the item when
\* the item fails validation (amount not digits with up to two decimals,
\* monetary account id not positive, empty recipient, unknown recipient
\* type).
C36_ValidatedBeforeSent ==
  \A i \in 0..(Len(cpIn.items) - 1) :
    /\ PostsFor(i) <= 1
    /\ FailsValidation(itemAt(i)) =>
         /\ PostsFor(i) = 0
         /\ \A k \in DOMAIN cpSessions : cpSessions[k] # i

\* a run over an item with three decimals and a valid item has returned:
\* no session and no POST for the first, one POST for the second
C36_Witness ==
  /\ cpPc = "returned"
  /\ Len(cpIn.items) = 2
  /\ itemAt(0).amount = <<"1", ".", "0", "0", "0">>
  /\ itemAt(1) = ValidItem
  /\ cpSessions = <<1>>
  /\ cpPosts = <<[item |-> 1, endpoint |-> "payment"]>>

\* the items the loop has dealt with are paired, in order, with the indices
\* from 0 on
PairedInOrder ==
  \A k \in DOMAIN cpReturn : cpReturn[k].pairedItem = k - 1

\* item i was given up: its output item is an error item
FailedAt(i) == i + 1 \in DOMAIN cpReturn /\ ~cpReturn[i + 1].success

\* C37: with continueOnFail CreatePayment produces exactly one output item
\* per input item, success or error, paired with that input index, and a
\* failure on one item does not stop the following items from being
\* processed; without it the first failure aborts the run and no later item
\* is sent.
C37_ContinueOrAbort ==
  /\ PairedInOrder
  /\ cpIn.continueOnFail =>
       /\ cpPc # "thrown"
       /\ cpPc = "returned" =>
            /\ Len(cpReturn) = Len(cpIn.items)
            /\ \A i \in 0..(Len(cpIn.items) - 1) :
                 validationError(itemAt(i)) = "" =>
                   \E k \in DOMAIN cpSessions : cpSessions[k] = i
  /\ ~cpIn.continueOnFail =>
       /\ \A k \in DOMAIN cpReturn : cpReturn[k].success
       /\ cpPc = "thrown" =>
            /\ Len(cpReturn) = cpIndex
            /\ \A k \in DOMAIN cpPosts : cpPosts[k].item <= cpIndex
            /\ \A k \in DOMAIN cpSessions : cpSessions[k] <= cpIndex
       /\ cpPc = "returned" => Len(cpReturn) = Len(cpIn.items)

\* with continueOnFail a run of two valid items has returned after the POST
\* of the first failed: an error item paired with 0, a success item paired
\* with 1, both POSTs sent
C37_Witness ==
  /\ cpIn.continueOnFail /\ cpPc = "returned"
  /\ cpIn.items = <<ValidItem, ValidItem>>
  /\ cpReturn = <<[success |-> FALSE, pairedItem |-> 0],
                  [success |-> TRUE, pairedItem |-> 1]>>
  /\ Len(cpPosts) = 2


\* ------------------------------------------------------------------------
\* Properties of the BunqTrigger webhook delete
\* ------------------------------------------------------------------------
\* the notification filters the GET has shown, entry after entry
RECURSIVE existingFilters(_)
existingFilters(items) ==
  IF items = <<>> THEN <<>>
  ELSE (IF Head(items).kind = "NotificationFilterUrl" THEN Head(items).filters
        ELSE <<>>) \o existingFilters(Tail(items))

\* the indices of the filters of list fs whose target is not url
OtherTargets(fs, url) == {k \in DOMAIN fs : fs[k].notification_target # url}

\* list ps is list fs without the filters whose target is url, in order
IsRestOf(ps, fs, url) ==
  /\ Len(ps) = Cardinality(OtherTargets(fs, url))
  /\ \A k \in DOMAIN ps : ps[k].notification_target # url
  /\ \A k \in OtherTargets(fs, url) :
       ps[Cardinality({j \in OtherTargets(fs, url) : j <= k})] = fs[k]

\* C38: the webhook delete operation always returns true and never raises,
\* whatever step fails; when it posts an update, the posted filter list is
\* exactly the existing notification filters whose target is not this
\* webhook URL: filters of other targets are preserved, all filters of this
\* URL are removed.
C38_DeleteBestEffort ==
  /\ btResult # "raised"
  /\ btPc = "ended" /\ btUrl # "" => btResult = "true"
  /\ Len(btPosted) <= 1
  /\ \A k \in DOMAIN btPosted :
       IsRestOf(btPosted[k], existingFilters(btResponse.items), btUrl)

\* delete has returned true after its POST failed; the GET had shown a
\* filter of this URL between two entries' filters of the other URL, and
\* the two others were posted
C38_Witness ==
  /\ btPc = "ended" /\ btResult = "true" /\ btUrl = "u1"
  /\ Len(btResponse.items) = 2
  /\ existingFilters(btResponse.items) =
       <<[category |-> "MUTATION", notification_target |-> "u2"],
         [category |-> "MUTATION", notification_target |-> "u1"],
         [category |-> "PAYMENT", notification_target |-> "u2"]>>
  /\ btPosted = << <<[category |-> "MUTATION", notification_target |-> "u2"],
                     [category |-> "PAYMENT", notification_target |-> "u2"]>> >>

====
